---- MODULE Spec2Model ----
(***************************************************************************)
(* A model of mcp-db-adapter: the SQL safety classifier (utils/safety.ts), *)
(* the per-engine safety policies and query execution (engines/mysql.ts,   *)
(* engines/sqlite.ts, engines/duckdb.ts), the connection registry          *)
(* (StateManager) and the tool handlers add_db_config, list_databases,     *)
(* introspect_schema, safe_execute_query and profile_table_or_column.      *)
(*                                                                         *)
(* A string is a sequence of one-character strings, so that the regular    *)
(* expressions of the source are evaluated character by character.         *)
(***************************************************************************)
EXTENDS Integers, Sequences, FiniteSets, TLC

VARIABLES
    query,      \* the query string handed to the classifier harness
    engine,     \* the policy the harness classified it under ("none" before)
    verdict,    \* what isSafeSQLQuery did: "true", "false", "TypeError", "none"
    dbs,        \* the object under dbs in the Conf store: path -> DatabaseState
    files,      \* the underlying databases: target -> version of the contents
    call,       \* the tool call in progress or last finished (a record)
    events,     \* adapter events of that call, in order
    race        \* Promise.race of executeQuery: the query, the timer, the winner

vars == <<query, engine, verdict, dbs, files, call, events, race>>

(***************************************************************************)
(* Characters                                                              *)
(***************************************************************************)
UpperChars == <<"A","B","C","D","E","F","G","H","I","J","K","L","M",
                "N","O","P","Q","R","S","T","U","V","W","X","Y","Z">>
LowerChars == <<"a","b","c","d","e","f","g","h","i","j","k","l","m",
                "n","o","p","q","r","s","t","u","v","w","x","y","z">>
Digits == {"0","1","2","3","4","5","6","7","8","9"}

UpperSet == {UpperChars[i] : i \in 1..Len(UpperChars)}
LowerSet == {LowerChars[i] : i \in 1..Len(LowerChars)}

\* \w of a JavaScript regular expression: [A-Za-z0-9_]
WordChars == UpperSet \cup LowerSet \cup Digits \cup {"_"}
IsWordChar(c) == c \in WordChars

\* \s of a JavaScript regular expression (the characters the inputs use)
IsSpace(c) == c \in {" ", "\n", "\t", "\r"}

\* a line terminator: what . does not match and $ (flag m) stops before
IsLineTerminator(c) == c \in {"\n", "\r"}

LowerOf == [c \in UpperSet |-> LowerChars[CHOOSE i \in 1..Len(UpperChars) : c = UpperChars[i]]]
toLowerChar(c) == IF c \in UpperSet THEN LowerOf[c] ELSE c

\* String.prototype.toLowerCase
toLowerCase(s) == [i \in 1..Len(s) |-> toLowerChar(s[i])]

\* s.substring(i - 1): the characters of s from position i on
From(s, i) == SubSeq(s, i, Len(s))

\* the string t occurs in s at position i
At(s, i, t) ==
    /\ i + Len(t) - 1 <= Len(s)
    /\ \A k \in 1..Len(t) : s[i + k - 1] = t[k]

\* String.prototype.startsWith
startsWith(s, t) == At(s, 1, t)

\* String.prototype.trim
RECURSIVE trimStart(_)
trimStart(s) ==
    IF s # <<>> /\ IsSpace(s[1]) THEN trimStart(Tail(s)) ELSE s

RECURSIVE trimEnd(_)
trimEnd(s) ==
    IF s # <<>> /\ IsSpace(s[Len(s)]) THEN trimEnd(SubSeq(s, 1, Len(s) - 1)) ELSE s

trim(s) == trimEnd(trimStart(s))

(***************************************************************************)
(* Regular expressions: a pattern is a sequence of atoms                   *)
(*   b      \b            lit    a literal string       ws   \s+           *)
(*   ws0    \s*           any    .*                     num  \d+           *)
(*   alt    (a|b|...)     end    $ (the end of the string)                 *)
(***************************************************************************)
ReB == [t |-> "b", s |-> <<>>, alts |-> <<>>]
ReLit(str) == [t |-> "lit", s |-> str, alts |-> <<>>]
ReWs == [t |-> "ws", s |-> <<>>, alts |-> <<>>]
ReWs0 == [t |-> "ws0", s |-> <<>>, alts |-> <<>>]
ReAny == [t |-> "any", s |-> <<>>, alts |-> <<>>]
ReNum == [t |-> "num", s |-> <<>>, alts |-> <<>>]
ReAlt(strs) == [t |-> "alt", s |-> <<>>, alts |-> strs]
ReEnd == [t |-> "end", s |-> <<>>, alts |-> <<>>]

\* \b at position i of s: between s[i-1] and s[i], one is a word character
\* and the other is not (outside the string counts as not)
WordBoundary(s, i) ==
    LET before == i > 1 /\ i - 1 <= Len(s) /\ IsWordChar(s[i - 1])
        after == i >= 1 /\ i <= Len(s) /\ IsWordChar(s[i])
    IN before # after

\* the characters s[i .. i+n-1] exist and all satisfy P
Run(s, i, n, P(_)) ==
    /\ i + n - 1 <= Len(s)
    /\ \A k \in i..(i + n - 1) : P(s[k])

IsDigit(c) == c \in Digits
NotLineTerminator(c) == ~IsLineTerminator(c)

\* atoms k.. of pat match s starting at position i (backtracking)
RECURSIVE MatchFrom(_, _, _, _)
MatchFrom(pat, k, s, i) ==
    IF k > Len(pat) THEN TRUE
    ELSE LET a == pat[k] IN
      CASE a.t = "b" -> WordBoundary(s, i) /\ MatchFrom(pat, k + 1, s, i)
        [] a.t = "lit" -> At(s, i, a.s) /\ MatchFrom(pat, k + 1, s, i + Len(a.s))
        [] a.t = "ws" ->
             \E n \in 1..(Len(s) - i + 1) :
                Run(s, i, n, IsSpace) /\ MatchFrom(pat, k + 1, s, i + n)
        [] a.t = "ws0" ->
             \E n \in 0..(Len(s) - i + 1) :
                Run(s, i, n, IsSpace) /\ MatchFrom(pat, k + 1, s, i + n)
        [] a.t = "any" ->
             \E n \in 0..(Len(s) - i + 1) :
                Run(s, i, n, NotLineTerminator) /\ MatchFrom(pat, k + 1, s, i + n)
        [] a.t = "num" ->
             \E n \in 1..(Len(s) - i + 1) :
                Run(s, i, n, IsDigit) /\ MatchFrom(pat, k + 1, s, i + n)
        [] a.t = "end" -> i = Len(s) + 1 /\ MatchFrom(pat, k + 1, s, i)
        [] a.t = "alt" ->
             \E j \in 1..Len(a.alts) :
                At(s, i, a.alts[j]) /\ MatchFrom(pat, k + 1, s, i + Len(a.alts[j]))

\* RegExp.prototype.test, unanchored
Test(pat, s) == \E i \in 1..(Len(s) + 1) : MatchFrom(pat, 1, s, i)

\* RegExp.prototype.test of a pattern that begins with ^
TestAnchored(pat, s) == MatchFrom(pat, 1, s, 1)

\* /\bword\b/
Word(w) == <<ReB, ReLit(w), ReB>>

(***************************************************************************)
(* The words of the safety policies                                        *)
(***************************************************************************)
\* the words of universalDangerousPatterns, and 'select'
universalWords ==
    [select |-> <<"s", "e", "l", "e", "c", "t">>,
     insert |-> <<"i", "n", "s", "e", "r", "t">>,
     update |-> <<"u", "p", "d", "a", "t", "e">>,
     delete |-> <<"d", "e", "l", "e", "t", "e">>,
     drop |-> <<"d", "r", "o", "p">>,
     create |-> <<"c", "r", "e", "a", "t", "e">>,
     alter |-> <<"a", "l", "t", "e", "r">>,
     truncate |-> <<"t", "r", "u", "n", "c", "a", "t", "e">>,
     replace |-> <<"r", "e", "p", "l", "a", "c", "e">>,
     with |-> <<"w", "i", "t", "h">>]

\* the words of sqliteSafetyConfig
sqliteWords ==
    [readfile |-> <<"r", "e", "a", "d", "f", "i", "l", "e">>,
     writefile |-> <<"w", "r", "i", "t", "e", "f", "i", "l", "e">>,
     pragma |-> <<"p", "r", "a", "g", "m", "a">>,
     load_extension |-> <<"l", "o", "a", "d", "_", "e", "x", "t", "e", "n", "s", "i", "o", "n">>,
     vacuum |-> <<"v", "a", "c", "u", "u", "m">>,
     analyze |-> <<"a", "n", "a", "l", "y", "z", "e">>,
     attach |-> <<"a", "t", "t", "a", "c", "h">>,
     detach |-> <<"d", "e", "t", "a", "c", "h">>]

\* the words of mysqlSafetyConfig
mysqlWords ==
    [into |-> <<"i", "n", "t", "o">>,
     outfile |-> <<"o", "u", "t", "f", "i", "l", "e">>,
     dumpfile |-> <<"d", "u", "m", "p", "f", "i", "l", "e">>,
     load_file |-> <<"l", "o", "a", "d", "_", "f", "i", "l", "e">>,
     for |-> <<"f", "o", "r">>,
     lock |-> <<"l", "o", "c", "k">>,
     in |-> <<"i", "n">>,
     share |-> <<"s", "h", "a", "r", "e">>,
     mode |-> <<"m", "o", "d", "e">>,
     call |-> <<"c", "a", "l", "l">>,
     exec |-> <<"e", "x", "e", "c">>,
     execute |-> <<"e", "x", "e", "c", "u", "t", "e">>,
     benchmark |-> <<"b", "e", "n", "c", "h", "m", "a", "r", "k">>,
     sleep |-> <<"s", "l", "e", "e", "p">>]

\* the word of hasLimit
W_limit == <<"l", "i", "m", "i", "t">>

(***************************************************************************)
(* utils/safety.ts: isSafeSQLQuery                                         *)
(***************************************************************************)
\* the rest of s from the first line terminator on (all of it dropped if none)
RECURSIVE skipToEndOfLine(_)
skipToEndOfLine(s) ==
    IF s = <<>> \/ IsLineTerminator(s[1]) THEN s ELSE skipToEndOfLine(Tail(s))

\* .replace(/--.*$/gm, '')
RECURSIVE stripLineComments(_)
stripLineComments(s) ==
    IF s = <<>> THEN <<>>
    ELSE IF At(s, 1, <<"-", "-">>) THEN stripLineComments(skipToEndOfLine(From(s, 3)))
    ELSE <<s[1]>> \o stripLineComments(Tail(s))

\* .replace(/\/\*[\s\S]*?\*\//g, ''): a comment is removed up to the first
\* closing mark; an opening mark that is never closed stays in the text
RECURSIVE stripBlockComments(_)
stripBlockComments(s) ==
    IF s = <<>> THEN <<>>
    ELSE IF At(s, 1, <<"/", "*">>) /\ \E j \in 3..Len(s) : At(s, j, <<"*", "/">>)
    THEN LET j == CHOOSE j \in 3..Len(s) :
                    /\ At(s, j, <<"*", "/">>)
                    /\ \A h \in 3..(j - 1) : ~At(s, h, <<"*", "/">>)
         IN stripBlockComments(From(s, j + 2))
    ELSE <<s[1]>> \o stripBlockComments(Tail(s))

\* .replace(/\s+/g, ' ')
RECURSIVE collapseWhitespace(_)
collapseWhitespace(s) ==
    IF s = <<>> THEN <<>>
    ELSE IF IsSpace(s[1]) THEN <<" ">> \o collapseWhitespace(trimStart(s))
    ELSE <<s[1]>> \o collapseWhitespace(Tail(s))

\* const normalizedQuery = query.trim().toLowerCase().replace(...)...trim()
normalizedQuery(q) ==
    trim(collapseWhitespace(stripBlockComments(stripLineComments(toLowerCase(trim(q))))))

\* String.prototype.split(';')
RECURSIVE split(_)
split(s) ==
    IF \E j \in 1..Len(s) : s[j] = ";"
    THEN LET j == CHOOSE j \in 1..Len(s) :
                    s[j] = ";" /\ \A h \in 1..(j - 1) : s[h] # ";"
         IN <<SubSeq(s, 1, j - 1)>> \o split(From(s, j + 1))
    ELSE <<s>>

NonBlank(seg) == trim(seg) # <<>>

\* normalizedQuery.split(';').filter(stmt => stmt.trim())
statements(q) == SelectSeq(split(normalizedQuery(q)), NonBlank)

universalDangerousPatterns ==
    << Word(universalWords.insert), Word(universalWords.update), Word(universalWords.delete), Word(universalWords.drop),
       Word(universalWords.create), Word(universalWords.alter), Word(universalWords.truncate), Word(universalWords.replace),
       <<ReB, ReLit(universalWords.with), ReWs, ReAny, ReB,
         ReAlt(<<universalWords.insert, universalWords.update, universalWords.delete, universalWords.create, universalWords.drop, universalWords.alter>>), ReB>> >>

\* for (const pattern of patterns) if (pattern.test(stmt)) return false
MatchesAnyPattern(patterns, stmt) ==
    \E k \in 1..Len(patterns) : Test(patterns[k], stmt)


\* (stmt.match(/c/g) || []).length
CountChar(s, c) == Cardinality({i \in 1..Len(s) : s[i] = c})

DefaultMaxNestedDepth == 10

\* a slip that looks for select anywhere in the statement
BeginsWithSelect_anywhere(stmt) == Test(<<ReLit(universalWords.select)>>, stmt)

\* stmt.startsWith('select')
BeginsWithSelect(stmt) == startsWith(stmt, universalWords.select)

\* openParens > maxDepth
ExceedsDepth(openParens, maxDepth) == openParens > maxDepth

\* a slip that writes '\b' with one backslash: in a string that is the
\* backspace character, which no statement contains
MatchesAnyKeyword_backspace(keywords, stmt) ==
    \E k \in 1..Len(keywords) :
        Test(<<ReLit(<<"BS">> \o toLowerCase(keywords[k]) \o <<"BS">>)>>, stmt)

\* new RegExp(`\\b${keyword.toLowerCase()}\\b`).test(stmt), for some keyword
MatchesAnyKeyword(keywords, stmt) ==
    \E k \in 1..Len(keywords) : Test(Word(toLowerCase(keywords[k])), stmt)

\* The result is "true" or "false"; "TypeError" when the function throws:
\* statements[0] is undefined when no segment is non-blank (the query ";").
isSafeSQLQuery(q, engineConfig) ==
    LET normalized == normalizedQuery(q)
        stmts == SelectSeq(split(normalized), NonBlank)
        stmt == trim(stmts[1])
        openParens == CountChar(stmt, "(")
        closeParens == CountChar(stmt, ")")
        maxDepth == IF engineConfig.maxNestedDepth = <<>>
                    THEN DefaultMaxNestedDepth
                    ELSE engineConfig.maxNestedDepth[1]
    IN IF normalized = <<>> THEN "false"
       ELSE IF Len(stmts) > 1 THEN "false"
       ELSE IF Len(stmts) = 0 THEN "TypeError"
       ELSE IF ~BeginsWithSelect(stmt) THEN "false"
       ELSE IF MatchesAnyPattern(universalDangerousPatterns, stmt) THEN "false"
       ELSE IF MatchesAnyPattern(engineConfig.dangerousPatterns, stmt) THEN "false"
       ELSE IF MatchesAnyKeyword(engineConfig.dangerousKeywords, stmt) THEN "false"
       ELSE IF openParens # closeParens THEN "false"
       ELSE IF ExceedsDepth(openParens, maxDepth) THEN "false"
       ELSE "true"

(***************************************************************************)
(* The engine policies. An optional field is a sequence of length 0 or 1   *)
(* (maxNestedDepth) or an empty list (dangerousKeywords).                  *)
(***************************************************************************)
mysqlSafetyConfig ==
    [ dangerousPatterns |->
        << <<ReB, ReLit(mysqlWords.into), ReWs, ReLit(mysqlWords.outfile), ReB>>,
           <<ReB, ReLit(mysqlWords.into), ReWs, ReLit(mysqlWords.dumpfile), ReB>>,
           Word(mysqlWords.load_file),
           <<ReB, ReLit(mysqlWords.for), ReWs, ReLit(universalWords.update), ReB>>,
           <<ReB, ReLit(mysqlWords.lock), ReWs, ReLit(mysqlWords.in), ReWs, ReLit(mysqlWords.share), ReWs,
             ReLit(mysqlWords.mode), ReB>>,
           <<ReB, ReLit(mysqlWords.into), ReWs, ReLit(<<"@">>)>>,
           Word(mysqlWords.call), Word(mysqlWords.exec), Word(mysqlWords.execute) >>,
      dangerousKeywords |-> <<mysqlWords.benchmark, mysqlWords.sleep>>,
      maxNestedDepth |-> <<8>> ]

sqliteSafetyConfig ==
    [ dangerousPatterns |->
        << Word(sqliteWords.readfile), Word(sqliteWords.writefile), Word(sqliteWords.pragma),
           Word(sqliteWords.load_extension), Word(sqliteWords.vacuum), Word(sqliteWords.analyze) >>,
      dangerousKeywords |-> <<sqliteWords.attach, sqliteWords.detach>>,
      maxNestedDepth |-> <<12>> ]

duckdbSafetyConfig ==
    LET copy == <<"c", "o", "p", "y">>
        to == <<"t", "o">>
        export == <<"e", "x", "p", "o", "r", "t">>
        install == <<"i", "n", "s", "t", "a", "l", "l">>
        load == <<"l", "o", "a", "d">>
        extension == <<"e", "x", "t", "e", "n", "s", "i", "o", "n">>
        python == <<"p", "y", "t", "h", "o", "n">>
        enable == <<"e", "n", "a", "b", "l", "e">>
        enabled == <<"e", "n", "a", "b", "l", "e", "d">>
        throughput_threads == <<"t", "h", "r", "o", "u", "g", "h", "p", "u", "t", "_", "t", "h", "r", "e", "a", "d", "s">>
        memory_limit == <<"m", "e", "m", "o", "r", "y", "_", "l", "i", "m", "i", "t">>
        set == <<"s", "e", "t">>
        reset == <<"r", "e", "s", "e", "t">>
        create_secret == <<"c", "r", "e", "a", "t", "e", "_", "s", "e", "c", "r", "e", "t">>
        drop_secret == <<"d", "r", "o", "p", "_", "s", "e", "c", "r", "e", "t">>
    IN [ dangerousPatterns |->
           << <<ReB, ReLit(copy), ReB, ReAny, ReB, ReLit(to), ReB>>,
              Word(export), Word(install), Word(load),
              <<ReB, ReLit(load), ReWs, ReLit(extension), ReB>>,
              Word(python),
              <<ReB, ReLit(<<"r">>), ReB, ReWs0, ReLit(<<"(">>)>>,
              Word(sqliteWords.attach), Word(sqliteWords.detach),
              <<ReB, ReLit(sqliteWords.pragma), ReB, ReAny, ReB, ReAlt(<<enabled, enable>>), ReB>>,
              <<ReB, ReLit(sqliteWords.pragma), ReB, ReAny, ReB, ReLit(throughput_threads), ReB>>,
              <<ReB, ReLit(sqliteWords.pragma), ReB, ReAny, ReB, ReLit(memory_limit), ReB>> >>,
         dangerousKeywords |-> <<set, reset, create_secret, drop_secret>>,
         maxNestedDepth |-> <<15>> ]

\* a DatabaseSafetyConfig that leaves both optional fields out
defaultSafetyConfig ==
    [ dangerousPatterns |-> <<>>,
      dangerousKeywords |-> <<>>,
      maxNestedDepth |-> <<>> ]

isMySQLQuerySafe(q) == isSafeSQLQuery(q, mysqlSafetyConfig)
isSQLiteQuerySafe(q) == isSafeSQLQuery(q, sqliteSafetyConfig)
isDuckDBQuerySafe(q) == isSafeSQLQuery(q, duckdbSafetyConfig)

Policies == {"mysql", "sqlite", "default"}

PolicyOf(e) ==
    CASE e = "mysql" -> mysqlSafetyConfig
      [] e = "sqlite" -> sqliteSafetyConfig
      [] e = "duckdb" -> duckdbSafetyConfig
      [] OTHER -> defaultSafetyConfig

\* the classifier as the callers reach it: per engine wrapper, or directly
Classified(q, e) ==
    CASE e = "mysql" -> isMySQLQuerySafe(q)
      [] e = "sqlite" -> isSQLiteQuerySafe(q)
      [] e = "duckdb" -> isDuckDBQuerySafe(q)
      [] OTHER -> isSafeSQLQuery(q, defaultSafetyConfig)

(***************************************************************************)
(* The inputs of the classifier                                            *)
(***************************************************************************)
MaxTokens == 3
MaxWords == 2
MaxParens == 13

\* the concatenations of at most n strings of T
RECURSIVE Concats(_, _)
Concats(T, n) ==
    IF n = 0 THEN {<<>>}
    ELSE LET shorter == Concats(T, n - 1)
         IN shorter \cup {t \o s : t \in T, s \in shorter}

\* statement structure: separators, comments, a string literal, parentheses
StructureTokens ==
    { <<" ">>, <<";">>, <<"-", "-">>, <<"\n">>, <<"/", "*">>, <<"*", "/">>,
      <<"(">>, <<")">>, <<"'", "-", "-", "'">>, <<"x">>, universalWords.select }

StructureQueries ==
    {head \o body : head \in {<<>>, universalWords.select}, body \in Concats(StructureTokens, MaxTokens)}

\* the words the universal patterns and the engine policies look for
QueryWords ==
    { universalWords.insert, universalWords.update, universalWords.delete, universalWords.drop, universalWords.create, universalWords.alter, universalWords.truncate,
      universalWords.replace, universalWords.with, mysqlWords.sleep, mysqlWords.benchmark, mysqlWords.into, mysqlWords.outfile, <<"@">>,
      mysqlWords.call, mysqlWords.for, sqliteWords.pragma, sqliteWords.attach, sqliteWords.detach, sqliteWords.load_extension, sqliteWords.vacuum,
      <<"x">>, <<"D", "R", "O", "P">>, <<"'", "-", "-", "'">> }

\* at most n words, a space between two words
RECURSIVE WordLists(_)
WordLists(n) ==
    IF n = 0 THEN {<<>>}
    ELSE IF n = 1 THEN {<<>>} \cup QueryWords
    ELSE LET shorter == WordLists(n - 1)
         IN shorter \cup {w \o <<" ">> \o s : w \in QueryWords, s \in shorter \ {<<>>}}

WordQueries == {universalWords.select \o <<" ">> \o ws : ws \in WordLists(MaxWords)}

\* k characters c
Repeat(c, k) == [i \in 1..k |-> c]

\* select 1 wrapped in k opening and j closing parentheses
ParenQueries ==
    {universalWords.select \o <<" ">> \o Repeat("(", k) \o <<"1">> \o Repeat(")", j) :
        k \in 0..MaxParens, j \in 0..MaxParens}

\* the same after a string literal that holds two dashes
QuotedParenQueries ==
    {universalWords.select \o <<" ", "'", "-", "-", "'", ",">> \o Repeat("(", k) \o <<"1">> \o Repeat(")", k) :
        k \in 0..MaxParens}

ClassifierInputs == StructureQueries \cup ParenQueries \cup QuotedParenQueries

(***************************************************************************)
(* tools/SafeExecuteQueryTool.ts: the LIMIT that is added to a query       *)
(***************************************************************************)
DEFAULT_LIMIT == 100

\* the decimal digits of n, as `${limit}` writes them
DigitChars == <<"0", "1", "2", "3", "4", "5", "6", "7", "8", "9">>

RECURSIVE numberToString(_)
numberToString(n) ==
    IF n < 10 THEN <<DigitChars[n + 1]>>
    ELSE numberToString(n \div 10) \o <<DigitChars[(n % 10) + 1]>>

\* /\bLIMIT\s+\d+/i.test(query)
hasLimit(q) == Test(<<ReB, ReLit(W_limit), ReWs, ReNum>>, toLowerCase(q))

\* /^\s*SELECT\b/i.test(query.trim())
isSelectQuery(q) == TestAnchored(<<ReWs0, ReLit(universalWords.select), ReB>>, toLowerCase(trim(q)))

addLimitToQuery(q, limit) ==
    IF hasLimit(q) THEN q
    ELSE IF isSelectQuery(q)
    THEN trim(q) \o <<" ", "L", "I", "M", "I", "T", " ">> \o numberToString(limit)
    ELSE q

(***************************************************************************)
(* The world outside: which files exist, which hosts answer, and what the  *)
(* databases hold. The contents of a database are the number of changes    *)
(* committed to it.                                                        *)
(***************************************************************************)
MaxWrites == 2

ExistingFiles == {"f1"}
LiveHosts == {"h1"}
Targets == ExistingFiles \cup LiveHosts

\* the database a config points at
TargetOf(config) ==
    CASE config.type = "mysql" -> config.host
      [] config.type \in {"sqlite", "duckdb"} -> config.file
      [] OTHER -> "none"

\* what the driver calls of one adapter call do: each may fail
IOOutcomes == [open : BOOLEAN, run : {"rows", "error", "timeout"}, close : BOOLEAN]

\* the configs add_db_config is called with; readonly is optional (a
\* sequence of length 0 or 1)
MySQLConfigs ==
    {[type |-> "mysql", host |-> h, port |-> 3306, user |-> "u", password |-> "p",
      database |-> "d1"] : h \in {"h1", "down"}}

SQLiteConfigs ==
    {[type |-> "sqlite", file |-> "f1", readonly |-> r] : r \in {<<>>, <<TRUE>>}}
        \cup {[type |-> "sqlite", file |-> "nofile", readonly |-> <<>>]}

\* new duckdb.Database(path) creates the file when there is none
DuckDBConfigs ==
    {[type |-> "duckdb", file |-> f, readonly |-> <<>>] : f \in {"f1", "nofile"}}

Configs == MySQLConfigs \cup SQLiteConfigs \cup DuckDBConfigs

\* the names the tools are called with; one of them holds a dot
Names == {<<"a">>, <<"a", ".", "b">>}

W_bump == <<"b", "u", "m", "p">>

\* the queries safe_execute_query is called with
ToolQueries ==
    { <<"s", "e", "l", "e", "c", "t", " ", "1">>,
      <<"S", "E", "L", "E", "C", "T", " ", "1", " ", "L", "I", "M", "I", "T", " ", "5">>,
      <<"s", "e", "l", "e", "c", "t", " ", "b", "u", "m", "p", "(", ")">>,
      <<"/", "*", "c", "*", "/", "s", "e", "l", "e", "c", "t", " ", "1">>,
      <<"d", "r", "o", "p", " ", "t", "a", "b", "l", "e", " ", "t">>,
      <<" ", "s", "e", "l", "e", "c", "t", " ", "1", " ">>,
      <<"s", "e", "l", "e", "c", "t", " ", "s", "l", "e", "e", "p", "(", "1", ")">>,
      <<";">> }

\* The MySQL server has a stored function bump() that inserts a row: a
\* SELECT that calls it changes the database. conn.query runs it with
\* autocommit, outside any transaction.
StatementWrites(text, engineKind) ==
    /\ engineKind = "mysql"
    /\ Test(Word(W_bump), toLowerCase(text))

\* What the database a config points at holds: one table, t, with one
\* column, c; every committed change is a row inserted into t. The MySQL
\* server also holds a second database with a table u (column c) that the
\* configured database does not have.
LiveCatalog(fs, config) ==
    IF TargetOf(config) \in DOMAIN fs
    THEN [tableName \in {"t"} |-> fs[TargetOf(config)]]
    ELSE <<>>

(***************************************************************************)
(* Adapter events and tool responses                                       *)
(***************************************************************************)
Event(op, engineKind, mode, text, ok) ==
    [op |-> op, engine |-> engineKind, mode |-> mode, text |-> text, ok |-> ok]

\* a response the handler returned
Returned(isError, kind) == [isError |-> isError, raised |-> FALSE, kind |-> kind]

\* an exception the handler raised instead of returning: kind is the
\* message of the error (every throw of the handlers is an Error)
Raised(kind) == [isError |-> FALSE, raised |-> TRUE, kind |-> kind]

NoResponse == [isError |-> FALSE, raised |-> FALSE, kind |-> "none"]

\* a slip that leaves out the catch block
errorHandler_rethrow(outcome) == outcome

\* ToolManager.errorHandler, the wrapper addTool registers every handler
\* with: what the handler returned goes out as it is; an exception
\* becomes a response with isError = true whose text is the message
errorHandler(outcome) ==
    IF outcome.raised THEN Returned(TRUE, outcome.kind) ELSE outcome

(***************************************************************************)
(* engines: CheckReachability. The result is [ok, events].                 *)
(***************************************************************************)
\* a probe that fails leaves the catch block to return false
checkSqliteConnection(config, io) ==
    LET mode == IF config.readonly = <<TRUE>> THEN "OPEN_READONLY" ELSE "OPEN_READWRITE"
        opened == Event("open", "sqlite", mode, <<>>, io.open)
        probe == Event("query", "sqlite", mode, <<>>, io.run = "rows")
        closed == Event("close", "sqlite", mode, <<>>, io.close)
    IN IF config.file \notin ExistingFiles THEN [ok |-> FALSE, events |-> <<>>]
       ELSE IF ~io.open THEN [ok |-> FALSE, events |-> <<opened>>]
       ELSE IF io.run # "rows" THEN [ok |-> FALSE, events |-> <<opened, probe>>]
       ELSE [ok |-> io.close, events |-> <<opened, probe, closed>>]

\* the catch block ends the connection when one was opened
checkMySqlConnection(config, io) ==
    LET opened == Event("open", "mysql", "", <<>>, io.open /\ config.host \in LiveHosts)
        probe == Event("query", "mysql", "", <<>>, io.run = "rows")
        closed == Event("close", "mysql", "", <<>>, io.close)
    IN IF ~opened.ok THEN [ok |-> FALSE, events |-> <<opened>>]
       ELSE IF io.run # "rows" THEN [ok |-> FALSE, events |-> <<opened, probe, closed>>]
       ELSE [ok |-> io.close, events |-> <<opened, probe, closed>>]

\* The path is config.file, or memory; the constructor reports a failed
\* open only to a callback, and none is given. The promise of the probe is
\* returned unawaited, so the finally block calls close while the probe is
\* under way, and the callback given to close drops its error.
checkDuckDBConnection(config, io) ==
    LET opened == Event("open", "duckdb", "", <<>>, io.open)
        probe == Event("query", "duckdb", "", <<>>, io.open /\ io.run = "rows")
        closed == Event("close", "duckdb", "", <<>>, io.close)
    IN [ok |-> probe.ok, events |-> <<opened, probe, closed>>]

\* let response = false; one branch per engine kind
checkDbConnection(config, io) ==
    CASE config.type = "mysql" -> checkMySqlConnection(config, io)
      [] config.type = "sqlite" -> checkSqliteConnection(config, io)
      [] config.type = "duckdb" -> checkDuckDBConnection(config, io)
      [] OTHER -> [ok |-> FALSE, events |-> <<>>]

(***************************************************************************)
(* engines: FetchSchema. The result is [raised, schema, events]: raised    *)
(* when the function throws, schema the SchemaState it returns otherwise.  *)
(* io.catalog is what the catalog queries and the row count of each table  *)
(* answer: the live row count of every table of the database. The columns  *)
(* and the size of a table are left out of the snapshot.                   *)
(***************************************************************************)
DEFAULT_SQLITE_SCHEMA_NAME == "main"
DEFAULT_DUCKDB_SCHEMA_NAME == "main"

\* the tables a database may hold
TableNames == {"t", "u"}

\* the contents a database may have: the live row count of each table
Catalogs == UNION {[T -> 0..MaxWrites] : T \in SUBSET TableNames}

\* the driver outcomes of a call that reads the catalog
WithCatalog(io, catalog) ==
    [open |-> io.open, run |-> io.run, close |-> io.close, catalog |-> catalog]

\* the loop over tablesResult: rowCount = rowCountResult?.count || 0 for
\* each table, totalRows += rowCount, and at the end
\* totalRows: totalRows > 0 ? totalRows : undefined (undefined is <<>>)
SchemaState(name, catalog) ==
    LET RECURSIVE Sum(_)
        Sum(T) == IF T = {} THEN 0
                  ELSE LET tableName == CHOOSE x \in T : TRUE
                       IN catalog[tableName] + Sum(T \ {tableName})
        totalRows == Sum(DOMAIN catalog)
    IN [name |-> name,
        tables |-> [tableName \in DOMAIN catalog |->
                       [name |-> tableName, stats |-> [rowCount |-> catalog[tableName]]]],
        stats |-> [totalTables |-> Cardinality(DOMAIN catalog),
                   totalRows |-> IF totalRows > 0 THEN <<totalRows>> ELSE <<>>]]

\* open is awaited before the try block; the finally block awaits close,
\* and nothing catches a close that throws
getSqliteSchema(config, io) ==
    LET mode == IF config.readonly = <<TRUE>> THEN "OPEN_READONLY" ELSE "OPEN_READWRITE"
        opened == Event("open", "sqlite", mode, <<>>, io.open /\ config.file \in ExistingFiles)
        catalog == Event("query", "sqlite", mode, <<>>, io.run = "rows")
        closed == Event("close", "sqlite", mode, <<>>, io.close)
    IN IF ~opened.ok THEN [raised |-> TRUE, schema |-> <<>>, events |-> <<opened>>]
       ELSE IF ~catalog.ok \/ ~closed.ok
       THEN [raised |-> TRUE, schema |-> <<>>, events |-> <<opened, catalog, closed>>]
       ELSE [raised |-> FALSE, schema |-> <<SchemaState(DEFAULT_SQLITE_SCHEMA_NAME, io.catalog)>>,
             events |-> <<opened, catalog, closed>>]

\* no catch block; the finally block ends the connection when one was
\* opened and swallows a failure of end
getMySqlSchema(config, io) ==
    LET opened == Event("open", "mysql", "", <<>>, io.open /\ config.host \in LiveHosts)
        catalog == Event("query", "mysql", "", <<>>, io.run = "rows")
        closed == Event("close", "mysql", "", <<>>, io.close)
    IN IF ~opened.ok THEN [raised |-> TRUE, schema |-> <<>>, events |-> <<opened>>]
       ELSE IF ~catalog.ok
       THEN [raised |-> TRUE, schema |-> <<>>, events |-> <<opened, catalog, closed>>]
       ELSE [raised |-> FALSE, schema |-> <<SchemaState(config.database, io.catalog)>>,
             events |-> <<opened, catalog, closed>>]

\* the database is constructed before the try block; the finally block
\* calls close without a callback
getDuckDBSchema(config, io) ==
    LET opened == Event("open", "duckdb", "", <<>>, io.open)
        catalog == Event("query", "duckdb", "", <<>>, io.open /\ io.run = "rows")
        closed == Event("close", "duckdb", "", <<>>, io.close)
    IN IF ~catalog.ok
       THEN [raised |-> TRUE, schema |-> <<>>, events |-> <<opened, catalog, closed>>]
       ELSE [raised |-> FALSE, schema |-> <<SchemaState(DEFAULT_DUCKDB_SCHEMA_NAME, io.catalog)>>,
             events |-> <<opened, catalog, closed>>]

(***************************************************************************)
(* engines: ExecuteQuery. The result is [success, raised, error, events,   *)
(* wrote]: raised when the function throws instead of returning a          *)
(* QueryResult, error what the message is about ("none", "connection",     *)
(* "query", "timeout"), wrote when the statement changed the database and  *)
(* the change was committed. io.run is what Promise.race settled with.     *)
(***************************************************************************)
\* error instanceof Error ? error.message : ...: what the caught error says
ErrorOf(settled) ==
    CASE settled = "rows" -> "none"
      [] settled = "timeout" -> "timeout"
      [] OTHER -> "query"

\* No transaction is begun: a statement that ran is committed. A failure is
\* rethrown as an McpError.
executeMySQLQuery(text, config, io) ==
    LET opened == Event("open", "mysql", "", <<>>, io.open /\ config.host \in LiveHosts)
        ran == Event("query", "mysql", "", text, io.run = "rows")
        closed == Event("close", "mysql", "", <<>>, io.close)
    IN IF ~opened.ok
       THEN [success |-> FALSE, raised |-> TRUE, error |-> "connection",
             events |-> <<opened>>, wrote |-> FALSE]
       ELSE [success |-> io.run = "rows",
             raised |-> io.run # "rows",
             error |-> ErrorOf(io.run),
             events |-> <<opened, ran, closed>>,
             wrote |-> io.run = "rows" /\ StatementWrites(text, "mysql")]

\* a slip that closes the connection on the way out of the try block only
executeSQLiteQuery_closeOnSuccess(text, config, io) ==
    LET mode == IF config.readonly = <<TRUE>> THEN "OPEN_READONLY" ELSE "OPEN_READWRITE"
        opened == Event("open", "sqlite", mode, <<>>, io.open /\ config.file \in ExistingFiles)
        ran == Event("query", "sqlite", mode, text, io.run = "rows")
        closed == Event("close", "sqlite", mode, <<>>, io.close)
    IN [success |-> opened.ok /\ io.run = "rows",
        raised |-> FALSE,
        error |-> IF opened.ok THEN ErrorOf(io.run) ELSE "connection",
        events |-> IF ~opened.ok THEN <<opened>>
                   ELSE IF io.run = "rows" THEN <<opened, ran, closed>>
                   ELSE <<opened, ran>>,
        wrote |-> FALSE]

\* The connection is read-only only when config.readonly is true. A failure
\* is returned as a QueryResult with success = false.
executeSQLiteQuery(text, config, io) ==
    LET mode == IF config.readonly = <<TRUE>> THEN "OPEN_READONLY" ELSE "OPEN_READWRITE"
        opened == Event("open", "sqlite", mode, <<>>, io.open /\ config.file \in ExistingFiles)
        ran == Event("query", "sqlite", mode, text, io.run = "rows")
        closed == Event("close", "sqlite", mode, <<>>, io.close)
    IN IF ~opened.ok
       THEN [success |-> FALSE, raised |-> FALSE, error |-> "connection",
             events |-> <<opened>>, wrote |-> FALSE]
       ELSE [success |-> io.run = "rows",
             raised |-> FALSE,
             error |-> ErrorOf(io.run),
             events |-> <<opened, ran, closed>>,
             wrote |-> /\ io.run = "rows"
                       /\ mode = "OPEN_READWRITE"
                       /\ StatementWrites(text, "sqlite")]

\* The database is opened with no access mode: config.readonly is not
\* read. A failure is returned as a QueryResult with success = false. close
\* is called without a callback and is not awaited.
executeDuckDBQuery(text, config, io) ==
    LET opened == Event("open", "duckdb", "", <<>>, io.open)
        ran == Event("query", "duckdb", "", text, io.open /\ io.run = "rows")
        closed == Event("close", "duckdb", "", <<>>, io.close)
    IN [success |-> ran.ok,
        raised |-> FALSE,
        error |-> IF io.run = "timeout" THEN "timeout"
                  ELSE IF ran.ok THEN "none" ELSE "query",
        events |-> <<opened, ran, closed>>,
        wrote |-> ran.ok /\ StatementWrites(text, "duckdb")]

\* addLimitToQuery(query, DEFAULT_LIMIT), worked out once for each query the
\* tools are called with
limitedQueryOf == [q \in ToolQueries |-> addLimitToQuery(q, DEFAULT_LIMIT)]

\* executeQuery of SafeExecuteQueryTool.ts: add the limit, then dispatch on the type
executeQuery(q, engineConfig, io) ==
    LET limitedQuery == limitedQueryOf[q]
    IN CASE engineConfig.type = "mysql" -> executeMySQLQuery(limitedQuery, engineConfig, io)
         [] engineConfig.type = "sqlite" -> executeSQLiteQuery(limitedQuery, engineConfig, io)
         [] engineConfig.type = "duckdb" -> executeDuckDBQuery(limitedQuery, engineConfig, io)
         [] OTHER -> [success |-> FALSE, raised |-> TRUE, error |-> "engine",
                      events |-> <<>>, wrote |-> FALSE]

\* the engine wrappers, worked out once for each query the tools are called with
isMySQLQuerySafeOf == [q \in ToolQueries |-> isMySQLQuerySafe(q)]
isSQLiteQuerySafeOf == [q \in ToolQueries |-> isSQLiteQuerySafe(q)]
isDuckDBQuerySafeOf == [q \in ToolQueries |-> isDuckDBQuerySafe(q)]

\* a slip that asks one policy whatever the engine of the record is
isSafeQuery_onePolicy(q, engineType) == isSQLiteQuerySafeOf[q]

\* isSafeQuery of SafeExecuteQueryTool.ts
isSafeQuery(q, engineType) ==
    CASE engineType = "mysql" -> isMySQLQuerySafeOf[q]
      [] engineType = "sqlite" -> isSQLiteQuerySafeOf[q]
      [] engineType = "duckdb" -> isDuckDBQuerySafeOf[q]
      [] OTHER -> "McpError"

(***************************************************************************)
(* StateManager and the tool handlers                                      *)
(***************************************************************************)
\* const { type, ...rest } = config
WithoutType(config) ==
    IF config.type = "mysql"
    THEN [host |-> config.host, port |-> config.port, user |-> config.user,
          password |-> config.password, database |-> config.database]
    ELSE [file |-> config.file, readonly |-> config.readonly]

\* { type: engine, ...config }; of a value that is no DatabaseState both
\* engine and config are undefined
WithType(database) ==
    IF database.engine = "undefined" THEN [type |-> "undefined"]
    ELSE [k \in {"type"} \cup DOMAIN database.config |->
             IF k = "type" THEN database.engine ELSE database.config[k]]

\* DatabaseStateSchema: a discriminated union over the engines mysql and sqlite
DatabaseStateSchemaAccepts(value) == value.engine \in {"mysql", "sqlite"}

\* dot-prop getPathSegments: Conf reads a key as a path and splits it at
\* every dot (no key here holds an escape, a bracket or a reserved word)
RECURSIVE getPathSegments(_)
getPathSegments(path) ==
    IF \E j \in 1..Len(path) : path[j] = "."
    THEN LET j == CHOOSE j \in 1..Len(path) :
                    path[j] = "." /\ \A h \in 1..(j - 1) : path[h] # "."
         IN <<SubSeq(path, 1, j - 1)>> \o getPathSegments(From(path, j + 1))
    ELSE <<path>>

\* The object under dbs, as a function from the path of a value below dbs
\* to the value. dot-prop setProperty: the value replaces whatever the path
\* held, everything below it included; a missing object on the way is created.
setProperty(store, segments, value) ==
    LET Below(q) == Len(segments) <= Len(q) /\ SubSeq(q, 1, Len(segments)) = segments
    IN [p \in {q \in DOMAIN store : ~Below(q)} \cup {segments} |->
           IF p = segments THEN value ELSE store[p]]

\* the keys of a DatabaseState, as segments of a path
DatabaseStateKeys ==
    { <<"n", "a", "m", "e">>, <<"e", "n", "g", "i", "n", "e">>,
      <<"c", "o", "n", "f", "i", "g">>, <<"s", "c", "h", "e", "m", "a", "s">> }

\* the keys of the config of an engine, as segments of a path
ConfigKeys(engineKind) ==
    IF engineKind = "mysql"
    THEN { <<"h", "o", "s", "t">>, <<"p", "o", "r", "t">>, <<"u", "s", "e", "r">>,
           <<"p", "a", "s", "s", "w", "o", "r", "d">>,
           <<"d", "a", "t", "a", "b", "a", "s", "e">> }
    ELSE { <<"f", "i", "l", "e">>, <<"r", "e", "a", "d", "o", "n", "l", "y">> }

\* StateSchema, run by serialize on every write: each value directly under
\* dbs is a DatabaseState. Keys the schema does not know are let through, in
\* the record and in its config, so a record that holds another record
\* under an extra key passes, and so does one whose config holds another
\* record under a key that is no field of the config; an object created on
\* the way to a nested path is not a DatabaseState, and neither is a record
\* one of whose own keys, or of the fields of its config, holds another record.
StateSchemaAccepts(store) ==
    \A p \in DOMAIN store :
        /\ <<p[1]>> \in DOMAIN store
        /\ (Len(p) > 1 /\ p[2] \in DatabaseStateKeys) =>
              /\ Len(p) = 3
              /\ p[2] = <<"c", "o", "n", "f", "i", "g">>
              /\ p[3] \notin ConfigKeys(store[<<p[1]>>].engine)

\* StateManager.setDatabase: [dbs, error]. A value or a state that fails its
\* schema makes the call throw and leaves the file as it was.
setDatabase(state, key, value) ==
    LET written == setProperty(state, getPathSegments(key), value)
    IN IF ~DatabaseStateSchemaAccepts(value) THEN [dbs |-> state, error |-> "ZodError"]
       ELSE IF ~StateSchemaAccepts(written)
       THEN [dbs |-> state, error |-> "InvalidStateStructure"]
       ELSE [dbs |-> written, error |-> "none"]

\* what the handlers read of a value that is no DatabaseState (a string, a
\* config, a map of schemas): it is truthy, its engine and config are undefined
NotADatabaseState == [name |-> <<>>, engine |-> "undefined", config |-> <<>>, schemas |-> <<>>]

\* the object at a path of the store: the record written there, its config
\* holding also what was written below it since (x is the one key of a
\* config that is written to here)
ObjectAt(state, segments) ==
    LET below == segments \o << <<"c", "o", "n", "f", "i", "g">>, <<"x">> >>
    IN IF below \in DOMAIN state
       THEN [state[segments] EXCEPT !.config = @ @@ [x |-> state[below]]]
       ELSE state[segments]

\* StateManager.getDatabase: dot-prop getProperty; undefined is <<>>. A
\* path that ends in a key of a registered record yields what the record
\* holds under the key (no longer path into a record is asked for here).
getDatabase(state, key) ==
    LET segments == getPathSegments(key)
        n == Len(segments)
    IN IF segments \in DOMAIN state THEN <<ObjectAt(state, segments)>>
       ELSE IF /\ n > 1
               /\ SubSeq(segments, 1, n - 1) \in DOMAIN state
               /\ segments[n] \in DatabaseStateKeys
       THEN <<NotADatabaseState>>
       ELSE <<>>

\* StateManager.getDatabaseNames: Object.keys of the object under dbs
getDatabaseNames(state) == {p[1] : p \in {q \in DOMAIN state : Len(q) = 1}}

\* a slip that writes the record before the connection is checked
addDatabaseHandler_storeFirst(state, name, config, io) ==
    LET isConnected == checkDbConnection(config, io)
        value == [name |-> name, engine |-> config.type, config |-> WithoutType(config),
                  schemas |-> <<>>]
        stored == setDatabase(state, name, value)
    IN IF stored.error # "none"
       THEN [dbs |-> state, reachable |-> isConnected.ok, events |-> isConnected.events,
             response |-> Raised(stored.error)]
       ELSE IF ~isConnected.ok
       THEN [dbs |-> stored.dbs, reachable |-> FALSE,
             events |-> isConnected.events, response |-> Raised("ConnectionUnreachable")]
       ELSE [dbs |-> stored.dbs, reachable |-> TRUE,
             events |-> isConnected.events, response |-> Returned(FALSE, "ok")]

\* the handler of add_db_config: [dbs, reachable, events, response]
addDatabaseHandler(state, name, config, io) ==
    LET isConnected == checkDbConnection(config, io)
        value == [name |-> name, engine |-> config.type, config |-> WithoutType(config),
                  schemas |-> <<>>]
        stored == setDatabase(state, name, value)
    IN IF ~isConnected.ok
       THEN [dbs |-> state, reachable |-> FALSE, events |-> isConnected.events,
             response |-> Raised("ConnectionUnreachable")]
       ELSE IF stored.error # "none"
       THEN [dbs |-> state, reachable |-> TRUE, events |-> isConnected.events,
             response |-> Raised(stored.error)]
       ELSE [dbs |-> stored.dbs, reachable |-> TRUE,
             events |-> isConnected.events, response |-> Returned(FALSE, "ok")]

\* a slip that runs the query before it looks at the classifier's verdict
safeExecuteQueryHandler_executeFirst(state, databaseName, q, io) ==
    IF getDatabase(state, databaseName) = <<>>
    THEN [verdict |-> "none", events |-> <<>>, wrote |-> FALSE,
          response |-> Raised("NotFound")]
    ELSE LET database == getDatabase(state, databaseName)[1]
             result == executeQuery(q, WithType(database), io)
             isSafe == isSafeQuery(q, database.engine)
         IN IF isSafe = "true"
            THEN [verdict |-> isSafe, events |-> result.events, wrote |-> result.wrote,
                  response |-> IF result.raised THEN Raised("ExecutionFailure")
                               ELSE Returned(~result.success,
                                       IF result.success THEN "ok" ELSE "QueryFailed")]
            ELSE [verdict |-> isSafe, events |-> result.events, wrote |-> result.wrote,
                  response |-> Raised(IF isSafe = "false" THEN "UnsafeQuery" ELSE isSafe)]

\* the handler of safe_execute_query: [verdict, events, wrote, response]
safeExecuteQueryHandler(state, databaseName, q, io) ==
    IF getDatabase(state, databaseName) = <<>>
    THEN [verdict |-> "none", events |-> <<>>, wrote |-> FALSE,
          response |-> Raised("NotFound")]
    ELSE LET database == getDatabase(state, databaseName)[1]
             isSafe == isSafeQuery(q, database.engine)
             result == executeQuery(q, WithType(database), io)
         IN IF isSafe = "false"
            THEN [verdict |-> isSafe, events |-> <<>>, wrote |-> FALSE,
                  response |-> Raised("UnsafeQuery")]
            ELSE IF isSafe # "true"
            THEN [verdict |-> isSafe, events |-> <<>>, wrote |-> FALSE,
                  response |-> Raised(isSafe)]
            ELSE [verdict |-> isSafe, events |-> result.events, wrote |-> result.wrote,
                  response |-> IF result.raised THEN Raised("ExecutionFailure")
                               ELSE Returned(~result.success,
                                       IF result.success THEN "ok" ELSE "QueryFailed")]

\* fetchSchemasFromDb: one schema name for sqlite and for mysql, none for
\* another type; the result maps each name to its snapshot
fetchSchemasFromDb(config, io) ==
    LET fetched == CASE config.type = "mysql" -> getMySqlSchema(config, io)
                     [] config.type = "sqlite" -> getSqliteSchema(config, io)
                     [] OTHER -> [raised |-> FALSE, schema |-> <<>>, events |-> <<>>]
        schemaName == IF config.type = "mysql" THEN config.database
                      ELSE DEFAULT_SQLITE_SCHEMA_NAME
    IN [raised |-> fetched.raised,
        schemas |-> IF fetched.schema = <<>> THEN <<>>
                    ELSE [n \in {schemaName} |-> fetched.schema[1]],
        events |-> fetched.events]

\* the handler of introspect_schema: [events, schemas, response]. It reads
\* the registry and does not write to it.
introspectSchemaHandler(state, name, io) ==
    IF getDatabase(state, name) = <<>>
    THEN [events |-> <<>>, schemas |-> <<>>, response |-> Raised("NotFound")]
    ELSE LET schemas == fetchSchemasFromDb(WithType(getDatabase(state, name)[1]), io)
         IN IF schemas.raised
            THEN [events |-> schemas.events, schemas |-> <<>>,
                  response |-> Raised("SchemaFailure")]
            ELSE [events |-> schemas.events, schemas |-> schemas.schemas,
                  response |-> Returned(FALSE, "ok")]

\* the handler of list_databases: [names, response]
listDatabasesHandler(state) ==
    LET databaseNames == getDatabaseNames(state)
    IN IF Cardinality(databaseNames) = 0
       THEN [names |-> {}, response |-> Raised("NoDatabasesConfigured")]
       ELSE [names |-> databaseNames, response |-> Returned(FALSE, "ok")]

(***************************************************************************)
(* profile_table_or_column. A profiling query is the record of what its    *)
(* text asks for: from is "table" when it selects from the profiled table  *)
(* and "catalog" when it selects from INFORMATION_SCHEMA.TABLES, table and *)
(* column are the names put into the text, columns are the names of the    *)
(* result columns in the order of the select list.                         *)
(***************************************************************************)
\* what the catalog of the server shows to a connection: one row for each
\* column of each table, of every database of the server
CatalogRows(config) ==
    IF config.type = "mysql"
    THEN {[schema |-> config.database, table |-> "t", column |-> "c"],
          [schema |-> "d2", table |-> "u", column |-> "c"]}
    ELSE {[schema |-> "main", table |-> "t", column |-> "c"]}

\* the table and column names profile_table_or_column is called with;
\* columnName is optional (a sequence of length 0 or 1)
ProfileTables == {"t", "u", "x"}
ProfileColumns == {<<>>, <<"c">>, <<"x">>}

\* hasMySQLTable: the count over information_schema.tables of the rows
\* with this table_name, of whatever database; executeMySQLQuery throws
\* when the probe fails
hasMySQLTable(config, tableName, io) ==
    LET result == executeMySQLQuery(<<"information_schema.tables">>, config, io)
    IN [raised |-> result.raised,
        found |-> result.success /\ \E r \in CatalogRows(config) : r.table = tableName,
        events |-> result.events]

\* hasMySQLColumn: the same over information_schema.columns
hasMySQLColumn(config, tableName, columnName, io) ==
    LET result == executeMySQLQuery(<<"information_schema.columns">>, config, io)
    IN [raised |-> result.raised,
        found |-> /\ result.success
                  /\ \E r \in CatalogRows(config) :
                        r.table = tableName /\ r.column = columnName,
        events |-> result.events]

\* hasSQLiteTable: the count over sqlite_master; a probe that fails has no
\* rows, and rows[0]?.count > 0 is false
hasSQLiteTable(config, tableName, io) ==
    LET result == executeSQLiteQuery(<<"sqlite_master">>, config, io)
    IN [raised |-> FALSE,
        found |-> result.success /\ \E r \in CatalogRows(config) : r.table = tableName,
        events |-> result.events]

\* hasSQLiteColumn: PRAGMA table_info of the table, some row with the name
hasSQLiteColumn(config, tableName, columnName, io) ==
    LET result == executeSQLiteQuery(<<"table_info">>, config, io)
    IN [raised |-> FALSE,
        found |-> /\ result.success
                  /\ \E r \in CatalogRows(config) :
                        r.table = tableName /\ r.column = columnName,
        events |-> result.events]

\* hasTable of ProfileTableOrColumnTool.ts: mysql and sqlite, else it throws
hasTable(config, tableName, io) ==
    CASE config.type = "mysql" -> hasMySQLTable(config, tableName, io)
      [] config.type = "sqlite" -> hasSQLiteTable(config, tableName, io)
      [] OTHER -> [raised |-> TRUE, found |-> FALSE, events |-> <<>>]

\* hasColumn of ProfileTableOrColumnTool.ts
hasColumn(config, tableName, columnName, io) ==
    CASE config.type = "mysql" -> hasMySQLColumn(config, tableName, columnName, io)
      [] config.type = "sqlite" -> hasSQLiteColumn(config, tableName, columnName, io)
      [] OTHER -> [raised |-> TRUE, found |-> FALSE, events |-> <<>>]

\* the result columns the three engines name alike
basicStatsColumns ==
    <<"total_count", "non_null_count", "null_count", "distinct_count", "uniqueness_ratio">>
topValuesColumns == <<"value", "frequency", "percentage">>
dataQualityColumns == <<"data_status", "count">>

generateMySQLProfilingQueries(tableName, columnName) ==
    LET Q(from, columns) == [from |-> from, table |-> tableName, column |-> columnName,
                             columns |-> columns]
    IN IF columnName # <<>>
       THEN [basic_stats |-> Q("table", basicStatsColumns),
             numeric_stats |-> Q("table", <<"min_value", "max_value", "mean_value", "std_dev">>),
             top_values |-> Q("table", topValuesColumns),
             data_quality |-> Q("table", dataQualityColumns)]
       ELSE [table_overview |-> Q("table", <<"total_rows">>),
             sample_data |-> Q("table", <<"*">>),
             table_data_summary |-> Q("catalog", <<"total_rows", "size_mb">>)]

generateSQLiteProfilingQueries(tableName, columnName) ==
    LET Q(from, columns) == [from |-> from, table |-> tableName, column |-> columnName,
                             columns |-> columns]
    IN IF columnName # <<>>
       THEN [basic_stats |-> Q("table", basicStatsColumns),
             numeric_stats |-> Q("table", <<"min_value", "max_value", "mean_value">>),
             top_values |-> Q("table", topValuesColumns),
             data_quality |-> Q("table", dataQualityColumns)]
       ELSE [table_overview |-> Q("table", <<"total_rows">>),
             sample_data |-> Q("table", <<"*">>),
             table_data_summary |-> Q("table", <<"total_rows", "size_mb">>)]

generateDuckDBProfilingQueries(tableName, columnName) ==
    LET Q(from, columns) == [from |-> from, table |-> tableName, column |-> columnName,
                             columns |-> columns]
    IN IF columnName # <<>>
       THEN [basic_stats |-> Q("table", basicStatsColumns),
             numeric_stats |-> Q("table", <<"min_value", "max_value", "mean_value",
                                            "std_dev", "median_value">>),
             top_values |-> Q("table", topValuesColumns),
             data_quality |-> Q("table", dataQualityColumns),
             string_analysis |-> Q("table", <<"min_length", "max_length", "avg_length">>)]
       ELSE [table_overview |-> Q("table", <<"total_rows">>),
             sample_data |-> Q("table", <<"*">>),
             table_data_summary |-> Q("table", <<"total_rows", "estimated_size_mb">>),
             table_statistics |-> Q("catalog", <<"table_name", "estimated_size",
                                                 "column_count", "actual_row_count">>)]

\* generateProfilingQueries of ProfileTableOrColumnTool.ts: mysql and
\* sqlite, else it throws (<<>>)
generateProfilingQueries(tableName, columnName, engineKind) ==
    CASE engineKind = "mysql" -> <<generateMySQLProfilingQueries(tableName, columnName)>>
      [] engineKind = "sqlite" -> <<generateSQLiteProfilingQueries(tableName, columnName)>>
      [] OTHER -> <<>>

\* Object.entries(queries): the names in the order the generators assign them
entriesOf(queries) ==
    SelectSeq(<<"basic_stats", "numeric_stats", "top_values", "data_quality",
                "string_analysis", "table_overview", "sample_data",
                "table_data_summary", "table_statistics">>,
              LAMBDA queryName : queryName \in DOMAIN queries)

\* One turn of the loop over the queries: executeQuery of
\* ProfileTableOrColumnTool.ts (no limit is added, no safety check is made)
\* and what is kept in results, [ok, total_rows, events]. A query that names
\* a table or a column the configured database lacks fails in the server;
\* COUNT over the table is its live row count; COUNT over the catalog is
\* the number of catalog rows the WHERE clause keeps (TABLE_NAME = the
\* table AND TABLE_SCHEMA = DATABASE()). An exception of executeMySQLQuery
\* is caught and kept as an error, like a result with success = false.
executeProfilingQuery(queryName, profilingQuery, config, io, fs) ==
    LET live == LiveCatalog(fs, config)
        valid == \/ profilingQuery.from = "catalog"
                 \/ /\ profilingQuery.table \in DOMAIN live
                    /\ profilingQuery.column \in {<<>>, <<"c">>}
        settled == IF valid THEN io ELSE [io EXCEPT !.run = "error"]
        result == CASE config.type = "mysql" -> executeMySQLQuery(<<queryName>>, config, settled)
                    [] config.type = "sqlite" -> executeSQLiteQuery(<<queryName>>, config, settled)
                    [] OTHER -> [success |-> FALSE, raised |-> TRUE, error |-> "engine",
                                 events |-> <<>>, wrote |-> FALSE]
        count == IF profilingQuery.from = "catalog"
                 THEN Cardinality({r \in CatalogRows(config) :
                                      /\ r.table = profilingQuery.table
                                      /\ r.schema = config.database})
                 ELSE live[profilingQuery.table]
    IN [ok |-> result.success,
        total_rows |-> IF result.success /\ profilingQuery.columns[1] = "total_rows"
                       THEN <<count>> ELSE <<>>,
        events |-> result.events]

\* formatProfilingReport, the table-level part: the row count of the
\* overview, the record count and the size hint of the data summary, and
\* the names of the queries that failed
formatProfilingReport(tableName, columnName, results) ==
    LET Has(queryName) == queryName \in DOMAIN results /\ results[queryName].ok
        dataSummary == results["table_data_summary"].total_rows[1]
    IN [totalRows |-> IF columnName = <<>> /\ Has("table_overview")
                      THEN results["table_overview"].total_rows ELSE <<>>,
        totalRecords |-> IF columnName = <<>> /\ Has("table_data_summary")
                         THEN <<dataSummary>> ELSE <<>>,
        insight |-> IF columnName = <<>> /\ Has("table_data_summary")
                    THEN IF dataSummary < 1000 THEN "small"
                         ELSE IF dataSummary < 100000 THEN "medium" ELSE "large"
                    ELSE "none",
        errors |-> {queryName \in DOMAIN results : ~results[queryName].ok}]

NoReport == [totalRows |-> <<>>, totalRecords |-> <<>>, insight |-> "none", errors |-> {}]

\* a slip that keeps the profile in the record of the database
profileTableOrColumnHandler_storesProfile(state, databaseName, tableName, columnName, io, fs) ==
    IF getDatabase(state, databaseName) = <<>>
    THEN [dbs |-> state, events |-> <<>>, results |-> <<>>, report |-> NoReport,
          response |-> Raised("NotFound")]
    ELSE [dbs |-> setProperty(state, getPathSegments(databaseName),
                      [getDatabase(state, databaseName)[1] EXCEPT
                          !.schemas = [n \in {tableName} |-> [name |-> tableName]]]),
          events |-> <<>>, results |-> <<>>, report |-> NoReport,
          response |-> Returned(FALSE, "ok")]

\* the handler of profile_table_or_column: [dbs, events, results, report,
\* response]. It reads the registry and does not write to it. One io stands
\* for every connection of the call.
profileTableOrColumnHandler(state, databaseName, tableName, columnName, io, fs) ==
    IF getDatabase(state, databaseName) = <<>>
    THEN [dbs |-> state, events |-> <<>>, results |-> <<>>, report |-> NoReport,
          response |-> Raised("NotFound")]
    ELSE LET database == getDatabase(state, databaseName)[1]
             configWithType == WithType(database)
             table == hasTable(configWithType, tableName, io)
             column == IF columnName = <<>>
                       THEN [raised |-> FALSE, found |-> TRUE, events |-> <<>>]
                       ELSE hasColumn(configWithType, tableName, columnName[1], io)
             queries == generateProfilingQueries(tableName, columnName, database.engine)
             Stopped(probed, kind) ==
                 [dbs |-> state, events |-> probed, results |-> <<>>, report |-> NoReport,
                  response |-> Raised(kind)]
         IN IF configWithType.type \notin {"mysql", "sqlite"}
            THEN Stopped(<<>>, "UnsupportedEngine")
            ELSE IF table.raised THEN Stopped(table.events, "ExecutionFailure")
            ELSE IF ~table.found THEN Stopped(table.events, "TableNotFound")
            ELSE IF column.raised
            THEN Stopped(table.events \o column.events, "ExecutionFailure")
            ELSE IF ~column.found
            THEN Stopped(table.events \o column.events, "ColumnNotFound")
            ELSE IF queries = <<>>
            THEN Stopped(table.events \o column.events, "UnsupportedEngine")
            ELSE LET names == entriesOf(queries[1])
                     results == [queryName \in DOMAIN queries[1] |->
                                    executeProfilingQuery(queryName, queries[1][queryName],
                                                          configWithType, io, fs)]
                     RECURSIVE Ran(_)
                     Ran(k) == IF k = 0 THEN <<>>
                               ELSE Ran(k - 1) \o results[names[k]].events
                 IN [dbs |-> state,
                     events |-> table.events \o column.events \o Ran(Len(names)),
                     results |-> [queryName \in DOMAIN results |->
                                     [ok |-> results[queryName].ok,
                                      total_rows |-> results[queryName].total_rows]],
                     report |-> formatProfilingReport(tableName, columnName, results),
                     response |-> Returned(FALSE, "ok")]

\* Promise.race([the query, the timer]) before executeQuery is called
NoRace == [query |-> "none", timer |-> "none", outcome |-> "none"]

NoCall ==
    [tool |-> "none", name |-> <<>>, config |-> <<>>, query |-> <<>>, type |-> "none",
     reachable |-> FALSE,
     verdict |-> "none", names |-> {}, schemas |-> <<>>, outcome |-> NoResponse,
     response |-> NoResponse]

\* the classifier harness at rest
HarnessIdle ==
    /\ query = <<>>
    /\ engine = "none"
    /\ verdict = "none"

(***************************************************************************)
(* The state of the tools before any call                                  *)
(***************************************************************************)
ToolsIdle ==
    /\ dbs = <<>>
    /\ files = [t \in Targets |-> 0]
    /\ call = NoCall
    /\ events = <<>>
    /\ race = NoRace

Init == HarnessIdle /\ ToolsIdle

\* add_db_config(name, config)
AddDatabase(name, config, io) ==
    LET r == addDatabaseHandler(dbs, name, config, io)
    IN /\ dbs' = r.dbs
       /\ events' = r.events
       /\ call' = [tool |-> "add_db_config", name |-> name, config |-> <<config>>,
                   query |-> <<>>,
                   type |-> config.type, reachable |-> r.reachable, verdict |-> "none",
                   names |-> {}, schemas |-> <<>>, outcome |-> r.response,
                   response |-> errorHandler(r.response)]
       /\ UNCHANGED <<files, query, engine, verdict, race>>

\* safe_execute_query(query, databaseName)
SafeExecuteQuery(databaseName, q, io) ==
    LET r == safeExecuteQueryHandler(dbs, databaseName, q, io)
        target == TargetOf(WithType(getDatabase(dbs, databaseName)[1]))
    IN /\ r.wrote => files[target] < MaxWrites
       /\ files' = IF r.wrote THEN [files EXCEPT ![target] = @ + 1] ELSE files
       /\ events' = r.events
       /\ call' = [tool |-> "safe_execute_query", name |-> databaseName, config |-> <<>>,
                   query |-> q,
                   type |-> IF getDatabase(dbs, databaseName) = <<>> THEN "none"
                            ELSE getDatabase(dbs, databaseName)[1].engine,
                   reachable |-> FALSE, verdict |-> r.verdict, names |-> {},
                   schemas |-> <<>>, outcome |-> r.response,
                   response |-> errorHandler(r.response)]
       /\ UNCHANGED <<dbs, query, engine, verdict, race>>

\* introspect_schema(name)
IntrospectSchema(name, io) ==
    LET catalog == IF getDatabase(dbs, name) = <<>> THEN <<>>
                   ELSE LiveCatalog(files, WithType(getDatabase(dbs, name)[1]))
        r == introspectSchemaHandler(dbs, name, WithCatalog(io, catalog))
    IN /\ events' = r.events
       /\ call' = [tool |-> "introspect_schema", name |-> name, config |-> <<>>,
                   query |-> <<>>,
                   type |-> IF getDatabase(dbs, name) = <<>> THEN "none"
                            ELSE getDatabase(dbs, name)[1].engine,
                   reachable |-> FALSE, verdict |-> "none", names |-> {},
                   schemas |-> r.schemas, outcome |-> r.response,
                   response |-> errorHandler(r.response)]
       /\ UNCHANGED <<dbs, files, query, engine, verdict, race>>

\* list_databases()
ListDatabases ==
    LET r == listDatabasesHandler(dbs)
    IN /\ events' = <<>>
       /\ call' = [tool |-> "list_databases", name |-> <<>>, config |-> <<>>, query |-> <<>>,
                   type |-> "none", reachable |-> FALSE, verdict |-> "none",
                   names |-> r.names, schemas |-> <<>>, outcome |-> r.response,
                   response |-> errorHandler(r.response)]
       /\ UNCHANGED <<dbs, files, query, engine, verdict, race>>

\* profile_table_or_column(databaseName, tableName, columnName)
ProfileTableOrColumn(databaseName, tableName, columnName, io) ==
    LET r == profileTableOrColumnHandler(dbs, databaseName, tableName, columnName, io, files)
    IN /\ dbs' = r.dbs
       /\ events' = r.events
       /\ call' = [tool |-> "profile_table_or_column", name |-> databaseName,
                   config |-> <<>>, query |-> <<>>,
                   type |-> IF getDatabase(dbs, databaseName) = <<>> THEN "none"
                            ELSE getDatabase(dbs, databaseName)[1].engine,
                   reachable |-> FALSE, verdict |-> "none", names |-> {},
                   schemas |-> <<>>, table |-> tableName, column |-> columnName,
                   results |-> r.results, report |-> r.report, outcome |-> r.response,
                   response |-> errorHandler(r.response)]
       /\ UNCHANGED <<files, query, engine, verdict, race>>

Next ==
    \/ \E name \in Names, config \in Configs, io \in IOOutcomes : AddDatabase(name, config, io)
    \/ \E name \in Names, io \in IOOutcomes : IntrospectSchema(name, io)
    \/ ListDatabases
    \/ \E name \in Names, q \in ToolQueries, io \in IOOutcomes : SafeExecuteQuery(name, q, io)

Spec == Init /\ [][Next]_vars

(***************************************************************************)
(* The five tools together, profile_table_or_column included, called with  *)
(* the configs that can be registered and with a server that either        *)
(* answers or reports an error                                             *)
(***************************************************************************)
ProfileConfigs ==
    {config \in MySQLConfigs \cup SQLiteConfigs : TargetOf(config) \in Targets}

\* the names the five tools are called with: one is a path to a key of the
\* record of another, one a path into the config of that record
ProfileNames ==
    { <<"a">>, <<"a", ".", "c", "o", "n", "f", "i", "g">>,
      <<"a", ".", "c", "o", "n", "f", "i", "g", ".", "x">> }

ProfileOutcomes == {io \in IOOutcomes : io.open /\ io.close /\ io.run # "timeout"}

ProfileQueries ==
    { <<"s", "e", "l", "e", "c", "t", " ", "b", "u", "m", "p", "(", ")">>,
      <<"s", "e", "l", "e", "c", "t", " ", "s", "l", "e", "e", "p", "(", "1", ")">>,
      <<"d", "r", "o", "p", " ", "t", "a", "b", "l", "e", " ", "t">> }

NextProfile ==
    \/ \E name \in ProfileNames, config \in ProfileConfigs, io \in ProfileOutcomes :
          AddDatabase(name, config, io)
    \/ \E name \in ProfileNames, io \in ProfileOutcomes : IntrospectSchema(name, io)
    \/ ListDatabases
    \/ \E name \in ProfileNames, q \in ProfileQueries, io \in ProfileOutcomes :
          SafeExecuteQuery(name, q, io)
    \/ \E name \in ProfileNames, tableName \in ProfileTables, columnName \in ProfileColumns,
          io \in ProfileOutcomes : ProfileTableOrColumn(name, tableName, columnName, io)

SpecProfile == Init /\ [][NextProfile]_vars

(***************************************************************************)
(* The classifier on its own: one query, classified once under one policy  *)
(***************************************************************************)
InitSafety ==
    /\ query \in ClassifierInputs
    /\ engine = "none"
    /\ verdict = "none"
    /\ ToolsIdle

Classify(e) ==
    /\ engine = "none"
    /\ engine' = e
    /\ verdict' = Classified(query, e)
    /\ UNCHANGED <<query, dbs, files, call, events, race>>

NextSafety == \E e \in Policies : Classify(e)

SpecSafety == InitSafety /\ [][NextSafety]_vars

\* the same, on the queries made of policy words
InitWords ==
    /\ query \in WordQueries
    /\ engine = "none"
    /\ verdict = "none"
    /\ ToolsIdle

SpecWords == InitWords /\ [][NextSafety]_vars

(***************************************************************************)
(* The adapters on their own: CheckReachability and FetchSchema as one     *)
(* step each, ExecuteQuery step by step. Its query and its timer are two   *)
(* callbacks that run in either order; the one that runs first settles     *)
(* Promise.race, the other one runs later and finds it settled.            *)
(***************************************************************************)
\* the queries executeQuery is called with
AdapterQueries ==
    { <<"s", "e", "l", "e", "c", "t", " ", "1">>,
      <<"s", "e", "l", "e", "c", "t", " ", "b", "u", "m", "p", "(", ")">> }

\* a slip that lets the callback that runs last decide
settle_lastWins(outcome, result) == result

\* a promise settles once: a later resolve or reject is ignored
settle(outcome, result) == IF outcome = "none" THEN result ELSE outcome

\* the adapter call in progress or last finished
AdapterCall(fn, config, text, io, phase, result) ==
    [tool |-> fn, config |-> <<config>>, query |-> text, io |-> io, phase |-> phase,
     result |-> result]

Racing == call.tool = "executeQuery" /\ call.phase = "racing"

CheckReachability(config, io) ==
    LET r == checkDbConnection(config, io)
    IN /\ ~Racing
       /\ call' = AdapterCall("checkDbConnection", config, <<>>, io, "done",
                               [ok |-> r.ok, raised |-> FALSE])
       /\ events' = r.events
       /\ race' = NoRace
       /\ UNCHANGED <<dbs, files, query, engine, verdict>>

FetchSchema(config, io) ==
    LET r == CASE config.type = "mysql" -> getMySqlSchema(config, io)
               [] config.type = "sqlite" -> getSqliteSchema(config, io)
               [] OTHER -> getDuckDBSchema(config, io)
    IN /\ ~Racing
       /\ call' = AdapterCall("getSchema", config, <<>>, io, "done",
                               [ok |-> ~r.raised, raised |-> r.raised,
                                schema |-> r.schema])
       /\ events' = r.events
       /\ race' = NoRace
       /\ UNCHANGED <<dbs, files, query, engine, verdict>>

\* generate<Engine>ProfilingQueries(tableName, columnName) of one engine
GenerateProfilingQueries(engineKind, tableName, columnName) ==
    LET queries ==
            CASE engineKind = "mysql" -> generateMySQLProfilingQueries(tableName, columnName)
              [] engineKind = "sqlite" -> generateSQLiteProfilingQueries(tableName, columnName)
              [] OTHER -> generateDuckDBProfilingQueries(tableName, columnName)
    IN /\ ~Racing
       /\ call' = AdapterCall("generateProfilingQueries", [type |-> engineKind],
                               <<tableName>> \o columnName, <<>>, "done", queries)
       /\ events' = <<>>
       /\ race' = NoRace
       /\ UNCHANGED <<dbs, files, query, engine, verdict>>

\* a connection that cannot be opened ends the call before the race
\* starts; new duckdb.Database does not tell, and the query fails instead
OpensConnection(config, io) ==
    CASE config.type = "mysql" -> io.open /\ config.host \in LiveHosts
      [] config.type = "sqlite" -> io.open /\ config.file \in ExistingFiles
      [] OTHER -> TRUE

\* executeQuery is called: the connection is opened, the query is sent
\* and the timer is set
BeginExecuteQuery(text, config, io) ==
    /\ ~Racing
    /\ IF OpensConnection(config, io)
       THEN /\ call' = AdapterCall("executeQuery", config, text, io, "racing", <<>>)
            /\ events' = <<>>
            /\ race' = [query |-> "pending", timer |-> "pending", outcome |-> "none"]
       ELSE LET r == executeQuery(text, config, io)
            IN /\ call' = AdapterCall("executeQuery", config, text, io, "done", <<r>>)
               /\ events' = r.events
               /\ race' = NoRace
    /\ UNCHANGED <<dbs, files, query, engine, verdict>>

\* the callback of the query runs, with rows or with an error
QueryCompletes(res) ==
    /\ race.query = "pending"
    /\ (call.config[1].type = "duckdb" /\ ~call.io.open) => res = "error"
    /\ race' = [race EXCEPT !.query = res, !.outcome = settle(@, res)]
    /\ UNCHANGED <<call, events, dbs, files, query, engine, verdict>>

\* the callback of setTimeout runs and rejects
TimerFires ==
    /\ race.timer = "pending"
    /\ race' = [race EXCEPT !.timer = "fired", !.outcome = settle(@, "timeout")]
    /\ UNCHANGED <<call, events, dbs, files, query, engine, verdict>>

\* the await of Promise.race resumes; catch and finally run; the function
\* returns or throws
ReturnExecuteQuery ==
    LET settled == [call.io EXCEPT !.run = race.outcome]
        r == executeQuery(call.query, call.config[1], settled)
    IN /\ Racing
       /\ race.outcome # "none"
       /\ call' = [call EXCEPT !.phase = "done", !.io = settled, !.result = <<r>>]
       /\ events' = r.events
       /\ UNCHANGED <<race, dbs, files, query, engine, verdict>>

NextAdapters ==
    \/ \E config \in Configs, io \in IOOutcomes : CheckReachability(config, io)
    \/ \E config \in Configs, io \in IOOutcomes, catalog \in Catalogs :
          FetchSchema(config, WithCatalog(io, catalog))
    \/ \E text \in AdapterQueries, config \in Configs, io \in IOOutcomes :
          BeginExecuteQuery(text, config, io)
    \/ \E engineKind \in {"mysql", "sqlite", "duckdb"}, tableName \in ProfileTables,
          columnName \in ProfileColumns :
          GenerateProfilingQueries(engineKind, tableName, columnName)
    \/ \E res \in {"rows", "error"} : QueryCompletes(res)
    \/ TimerFires
    \/ ReturnExecuteQuery

SpecAdapters == Init /\ [][NextAdapters]_vars

(***************************************************************************)
(* What a query is to the database, for stating the claims: each character *)
(* is code, part of a string literal '...', or part of a comment (-- to    *)
(* the end of the line, or between the block comment marks).               *)
(***************************************************************************)
RECURSIVE SqlMask(_, _, _)
SqlMask(s, i, mode) ==
    IF i > Len(s) THEN <<>>
    ELSE CASE mode = "code" ->
                IF At(s, i, <<"-", "-">>)
                THEN <<"comment", "comment">> \o SqlMask(s, i + 2, "line")
                ELSE IF At(s, i, <<"/", "*">>)
                THEN <<"comment", "comment">> \o SqlMask(s, i + 2, "block")
                ELSE IF s[i] = "'"
                THEN <<"string">> \o SqlMask(s, i + 1, "string")
                ELSE <<"code">> \o SqlMask(s, i + 1, "code")
           [] mode = "line" ->
                IF IsLineTerminator(s[i])
                THEN <<"code">> \o SqlMask(s, i + 1, "code")
                ELSE <<"comment">> \o SqlMask(s, i + 1, "line")
           [] mode = "block" ->
                IF At(s, i, <<"*", "/">>)
                THEN <<"comment", "comment">> \o SqlMask(s, i + 2, "code")
                ELSE <<"comment">> \o SqlMask(s, i + 1, "block")
           [] mode = "string" ->
                IF s[i] = "'"
                THEN <<"string">> \o SqlMask(s, i + 1, "code")
                ELSE <<"string">> \o SqlMask(s, i + 1, "string")

MaskOf(q) == SqlMask(q, 1, "code")

\* the query with every comment character replaced by a space
Uncommented(q) ==
    LET m == MaskOf(q) IN [i \in 1..Len(q) |-> IF m[i] = "comment" THEN " " ELSE q[i]]

\* a ; outside comments and literals with statement text on both sides
HasSecondStatement(q) ==
    LET m == MaskOf(q)
        Separator(k) == q[k] = ";" /\ m[k] = "code"
        Text(k) == m[k] # "comment" /\ ~IsSpace(q[k]) /\ ~Separator(k)
    IN \E i \in 1..Len(q) :
          /\ Separator(i)
          /\ \E h \in 1..(i - 1) : Text(h)
          /\ \E j \in (i + 1)..Len(q) : Text(j)

WriteVerbs ==
    {universalWords.insert, universalWords.update, universalWords.delete, universalWords.drop, universalWords.create, universalWords.alter, universalWords.truncate, universalWords.replace}

\* one of the eight verbs is a whole word of the query, outside comments
ContainsWriteVerb(q) ==
    \E verb \in WriteVerbs : Test(Word(verb), toLowerCase(Uncommented(q)))

\* scanning the parentheses outside comments and literals from position i
\* at nesting depth d: a ) at depth 0, or depth above 0 at the end
RECURSIVE UnbalancedFrom(_, _, _, _)
UnbalancedFrom(s, m, i, d) ==
    IF i > Len(s) THEN d # 0
    ELSE IF m[i] = "code" /\ s[i] = "(" THEN UnbalancedFrom(s, m, i + 1, d + 1)
    ELSE IF m[i] = "code" /\ s[i] = ")" THEN d = 0 \/ UnbalancedFrom(s, m, i + 1, d - 1)
    ELSE UnbalancedFrom(s, m, i + 1, d)

Unbalanced(q) == UnbalancedFrom(q, MaskOf(q), 1, 0)

Classifying == verdict # "none"

(***************************************************************************)
(* Claims about the classifier                                             *)
(***************************************************************************)
\* C1: a query with a second non-empty statement after a ; is rejected
\* (isSafeSQLQuery returns false) under every engine policy.
C1_StackedStatementRejected ==
    (Classifying /\ HasSecondStatement(query)) => verdict = "false"

\* C2: a query that contains insert, update, delete, drop, create, alter,
\* truncate or replace as a whole word, in any letter case, is rejected
\* under every engine policy.
C2_WriteVerbRejected ==
    (Classifying /\ ContainsWriteVerb(query)) => verdict = "false"

\* C3: a query is accepted only if, after normalization, exactly one
\* statement remains and it begins with select; a query that is empty
\* after normalization is rejected.
C3_AcceptedBeginsWithSelect ==
    LET normalized == normalizedQuery(query)
        stmts == SelectSeq(split(normalized), NonBlank)
    IN /\ verdict = "true" =>
             /\ normalized # <<>>
             /\ Len(stmts) = 1
             /\ startsWith(trim(stmts[1]), universalWords.select)
       /\ (Classifying /\ normalized = <<>>) => verdict = "false"

\* C3 witness: a query that begins with a comment, and with select only
\* once the comment is stripped, is accepted.
C3_Witness ==
    /\ verdict = "true"
    /\ ~startsWith(query, universalWords.select)
    /\ \E i \in 1..Len(query) : MaskOf(query)[i] = "comment"

\* C4: a query whose parentheses are unbalanced (a closing one with no
\* earlier matching opening one, or an opening one never closed) is rejected.
C4_UnbalancedRejected ==
    (Classifying /\ Unbalanced(query)) => verdict = "false"

\* the limit the claim gives each policy
C5_Limit(e) == CASE e = "mysql" -> 8 [] e = "sqlite" -> 12 [] OTHER -> 10

\* the query passes every check of the classifier other than the limit
C5_OtherwiseAcceptable(q, e) ==
    isSafeSQLQuery(q, [PolicyOf(e) EXCEPT !.maxNestedDepth = <<Len(q)>>]) = "true"

\* the number of opening parentheses of the query, outside comments
C5_OpenParens(q) == CountChar(Uncommented(q), "(")

\* C5: an otherwise acceptable query with n opening parentheses is rejected
\* when n exceeds the policy's limit (mysql 8, sqlite 12, 10 when the policy
\* gives none) and accepted when it does not: n equal to the limit is accepted.
C5_DepthLimitInclusive ==
    (Classifying /\ C5_OtherwiseAcceptable(query, engine)) =>
        (verdict = "true" <=> C5_OpenParens(query) <= C5_Limit(engine))

\* the forms the claim lists for each policy
C6_Listed(e) ==
    CASE e = "mysql" ->
           << Word(mysqlWords.sleep), Word(mysqlWords.benchmark),
              <<ReB, ReLit(mysqlWords.into), ReWs, ReLit(mysqlWords.outfile), ReB>>,
              <<ReB, ReLit(mysqlWords.into), ReWs, ReLit(<<"@">>)>>,
              Word(mysqlWords.call),
              <<ReB, ReLit(mysqlWords.for), ReWs, ReLit(universalWords.update), ReB>> >>
      [] e = "sqlite" ->
           << Word(sqliteWords.pragma), Word(sqliteWords.attach), Word(sqliteWords.detach),
              Word(sqliteWords.load_extension), Word(sqliteWords.vacuum) >>
      [] OTHER -> <<>>

C6_MatchesListed(q, e) ==
    LET stmts == statements(q)
        stmt == trim(stmts[1])
        listed == C6_Listed(e)
    IN /\ Len(stmts) >= 1
       /\ \E k \in 1..Len(listed) : Test(listed[k], stmt)

\* C6: under an engine policy, a query whose normalized statement matches a
\* dangerous pattern or holds a dangerous keyword of that policy as a whole
\* word is rejected (sleep, benchmark, into outfile, into @var, call, for
\* update under mysql; pragma, attach, detach, load_extension, vacuum under
\* sqlite).
C6_EngineSpecificRejected ==
    (Classifying /\ C6_MatchesListed(query, engine)) => verdict = "false"

\* C6 witness: a select that only an engine keyword makes dangerous is
\* rejected under that engine: the default policy would accept it.
C6_Witness ==
    /\ verdict = "false"
    /\ C6_MatchesListed(query, engine)
    /\ isSafeSQLQuery(query, defaultSafetyConfig) = "true"

(***************************************************************************)
(* Claims about the tools                                                  *)
(***************************************************************************)
\* C7: ExecuteQuery never commits a change to the underlying database: the
\* contents after a call equal the contents before it, for every engine kind
\* and every stored config, even when the classifier accepts a statement that
\* writes.
C7_NeverCommits == [][files' = files]_vars

SafeExecuteCall == call.tool = "safe_execute_query"

\* the classifier, asked directly, rejects the query of the call under the
\* policy of the engine of the named database
C8_ClassifierRejects ==
    /\ call.type \in {"mysql", "sqlite"}
    /\ isSafeSQLQuery(call.query, PolicyOf(call.type)) = "false"

\* C8: in safe_execute_query a query the classifier rejects gets the
\* unsafe-query error and the call has no adapter event: no connection is
\* opened and nothing is executed.
C8_UnsafeBeforeIO ==
    (SafeExecuteCall /\ C8_ClassifierRejects) =>
        /\ call.response.isError
        /\ call.response.kind = "UnsafeQuery"
        /\ events = <<>>

\* C8 witness: a call on a registered database ended with the unsafe-query
\* error.
C8_Witness ==
    /\ SafeExecuteCall
    /\ C8_ClassifierRejects
    /\ call.response.kind = "UnsafeQuery"

\* the query has a LIMIT n clause outside comments; it ends in one
C9_LimitClause == <<ReB, ReLit(W_limit), ReWs, ReNum>>
C9_HasLimit(q) == Test(C9_LimitClause, toLowerCase(Uncommented(q)))
C9_EndsInLimit(q) == Test(C9_LimitClause \o <<ReEnd>>, toLowerCase(q))

\* the texts the call handed to the adapter
C9_Handed == {events[i].text : i \in {k \in 1..Len(events) : events[k].op = "query"}}

\* C9: an accepted query with no explicit LIMIT clause reaches the adapter as
\* the trimmed query followed by " LIMIT 100"; one that ends in LIMIT n
\* reaches it unmodified.
C9_LimitAppended ==
    (SafeExecuteCall /\ call.verdict = "true") =>
        \A text \in C9_Handed :
            /\ ~C9_HasLimit(call.query) =>
                  text = trim(call.query) \o <<" ", "L", "I", "M", "I", "T", " ", "1", "0", "0">>
            /\ C9_EndsInLimit(call.query) => text = call.query

AddDatabaseCall == call.tool = "add_db_config"

\* C10: when the reachability check of add_database returns false the call
\* signals a registration error and the registry is as before the call,
\* a record already registered under the same name included.
C10_UnreachableNotStored ==
    [][(AddDatabaseCall' /\ ~call'.reachable /\ <<call, events>>' # <<call, events>>) =>
          /\ dbs' = dbs
          /\ call'.response.isError
          /\ call'.response.kind = "ConnectionUnreachable"]_vars

\* C10 witness: an unreachable config of another engine kind was refused
\* under a name that is registered, and the record is still the old one.
C10_Witness ==
    /\ AddDatabaseCall
    /\ ~call.reachable
    /\ call.response.kind = "ConnectionUnreachable"
    /\ getDatabase(dbs, call.name) # <<>>
    /\ getDatabase(dbs, call.name)[1].engine # call.type

(***************************************************************************)
(* Claims about the registry                                               *)
(***************************************************************************)
\* the names a caller has registered and can still get: those for which
\* getDatabase returns a record
C11_Registered(state) == {n \in Names : getDatabase(state, n) # <<>>}

\* the last call was add_db_config with a config that was found reachable
\* and whose engine kind the registry's schema admits
C11_ReachableAdd ==
    /\ AddDatabaseCall
    /\ call.reachable
    /\ call.type \in {"mysql", "sqlite"}

\* C11: after add_database(name, config) with a reachable config, for every
\* name, Get(name) returns the record {name, engine kind, config fields, no
\* cached schemas} and List() contains the name.
C11_RegisteredAsGiven ==
    C11_ReachableAdd =>
        /\ getDatabase(dbs, call.name) =
              << [name |-> call.name, engine |-> call.type,
                  config |-> WithoutType(call.config[1]), schemas |-> <<>>] >>
        /\ call.name \in getDatabaseNames(dbs)

\* C12: add_database registers a reachable config of every engine kind its
\* input schema accepts (mysql, sqlite, duckdb): the write succeeds and the
\* record carries the engine kind. Stated for a name without a dot.
C12_EveryEngineKindRegistered ==
    (AddDatabaseCall /\ call.reachable /\ call.name = <<"a">>) =>
        /\ ~call.response.isError
        /\ getDatabase(dbs, call.name) # <<>>
        /\ getDatabase(dbs, call.name)[1].engine = call.type

\* C13: no two records of the registry share a name, and a successful
\* add_database on a registered name replaces the record: Get(name) then
\* holds the new engine kind and config with no cached schemas, and List()
\* contains the name.
C13_UniqueAndOverwritten ==
    [][/\ \A p, q \in DOMAIN dbs' : dbs'[p].name = dbs'[q].name => p = q
       /\ ( /\ AddDatabaseCall'
            /\ ~call'.response.isError
            /\ <<call, events, dbs>>' # <<call, events, dbs>>
            /\ getDatabase(dbs, call'.name) # <<>> ) =>
               /\ getDatabase(dbs', call'.name) =
                     << [name |-> call'.name, engine |-> call'.type,
                         config |-> WithoutType(call'.config[1]), schemas |-> <<>>] >>
               /\ call'.name \in getDatabaseNames(dbs')]_vars

IntrospectCall == call.tool = "introspect_schema"

\* C14: cachedSchemas of a registered database is empty until the first
\* successful introspect_schema on it, and from then on holds the returned
\* snapshot under its schema name.
C14_SchemaCachedOnIntrospection ==
    /\ (AddDatabaseCall /\ ~call.response.isError) =>
            getDatabase(dbs, call.name)[1].schemas = <<>>
    /\ (IntrospectCall /\ ~call.response.isError) =>
            /\ call.schemas # <<>>
            /\ getDatabase(dbs, call.name)[1].schemas = call.schemas

ListCall == call.tool = "list_databases"

\* C20: list_databases returns an error when nothing is registered, and
\* otherwise exactly the registered names.
C20_ListsRegisteredNames ==
    ListCall =>
        /\ C11_Registered(dbs) = {} <=> call.response.isError
        /\ ~call.response.isError => call.names = C11_Registered(dbs)

(***************************************************************************)
(* Claims about the adapters                                               *)
(***************************************************************************)
AdapterDone(fn) == call.tool = fn /\ call.phase = "done"

\* the call opened a connection; it called close on it afterwards
OpenedConnection == \E i \in 1..Len(events) : events[i].op = "open" /\ events[i].ok
ClosedConnection ==
    \E i \in 1..Len(events) :
        /\ events[i].op = "open"
        /\ \E j \in (i + 1)..Len(events) : events[j].op = "close"

\* what the caller sees of a result of executeQuery
C15_Outcome(r) == [success |-> r.success, raised |-> r.raised, error |-> r.error]

\* C15: for every engine kind, when ExecuteQuery returns or raises (after
\* success, a query error or a timeout) it has closed the connection it
\* opened, and the close failing does not change the outcome of the call.
C15_ExecuteQueryCloses ==
    AdapterDone("executeQuery") =>
        /\ OpenedConnection => ClosedConnection
        /\ C15_Outcome(call.result[1]) =
              C15_Outcome(executeQuery(call.query, call.config[1],
                                       [call.io EXCEPT !.close = ~@]))

\* C15 witness: the timer won, close was called on the open connection and
\* failed, and the call ended with the timeout error.
C15_Witness ==
    /\ AdapterDone("executeQuery")
    /\ race.outcome = "timeout"
    /\ OpenedConnection
    /\ events[Len(events)].op = "close"
    /\ ~events[Len(events)].ok
    /\ call.result[1].error = "timeout"

\* C16: when CheckReachability or FetchSchema finishes, whatever it returns
\* or raises, every connection it opened has been closed.
C16_NoConnectionRetained ==
    (AdapterDone("checkDbConnection") \/ AdapterDone("getSchema")) =>
        (OpenedConnection => ClosedConnection)

\* C17: CheckReachability never raises; it returns true only when the
\* open, the probe and the close all succeeded, and false otherwise.
C17_CheckNeverRaises ==
    AdapterDone("checkDbConnection") =>
        /\ ~call.result.raised
        /\ call.result.ok => (call.io.open /\ call.io.run = "rows" /\ call.io.close)

\* C18: for every engine kind a failure of ExecuteQuery (connection error,
\* query error, timeout) is returned as a QueryResult with success = false
\* and the error set, and is not raised.
C18_FailureIsReturned ==
    (AdapterDone("executeQuery") /\ call.result[1].error # "none") =>
        /\ ~call.result[1].raised
        /\ ~call.result[1].success

\* C19: ExecuteQuery has one outcome, that of whichever of the query and
\* the timer ran first; the callback that runs later does not change it,
\* and the call returns or raises accordingly.
C19_FirstSettles ==
    [][/\ (race.outcome = "none" /\ race.timer = "pending" /\ race'.timer = "fired") =>
             race'.outcome = "timeout"
       /\ (race.outcome = "none" /\ race.query = "pending" /\ race'.query # "pending") =>
             race'.outcome = race'.query
       /\ (race.outcome # "none" /\ call' = call) => race'.outcome = race.outcome
       /\ (call'.tool = "executeQuery" /\ call'.phase = "done" /\ race'.outcome # "none") =>
             call'.result[1].error = ErrorOf(race'.outcome)]_vars

\* C19 witness: the timer fired first, the call ended with the timeout
\* error, and the query delivered its rows afterwards.
C19_Witness ==
    /\ AdapterDone("executeQuery")
    /\ race.outcome = "timeout"
    /\ race.query = "rows"
    /\ call.result[1].error = "timeout"
    /\ ~call.result[1].success

(***************************************************************************)
(* C23. For every database state, one whose tables are all empty included, *)
(* the snapshot FetchSchema returns has stats.totalTables equal to the     *)
(* number of entries of tables, stats.totalRows equal to the sum of the    *)
(* tables' stats.rowCount, and each table's stats.rowCount equal to the    *)
(* live row count of that table.                                           *)
(***************************************************************************)
RECURSIVE C23_SumOfRowCounts(_)
C23_SumOfRowCounts(tables) ==
    IF DOMAIN tables = {} THEN 0
    ELSE LET tableName == CHOOSE x \in DOMAIN tables : TRUE
         IN tables[tableName].stats.rowCount
              + C23_SumOfRowCounts([x \in DOMAIN tables \ {tableName} |-> tables[x]])

C23_Fetched == AdapterDone("getSchema") /\ call.result.ok

C23_SnapshotCountsRows ==
    C23_Fetched =>
        LET snapshot == call.result.schema[1]
        IN /\ snapshot.stats.totalTables = Cardinality(DOMAIN snapshot.tables)
           /\ DOMAIN snapshot.tables = DOMAIN call.io.catalog
           /\ \A tableName \in DOMAIN snapshot.tables :
                 snapshot.tables[tableName].stats.rowCount = call.io.catalog[tableName]
           /\ snapshot.stats.totalRows = <<C23_SumOfRowCounts(snapshot.tables)>>

(***************************************************************************)
(* C30. When the query finishes, with rows or with an error, before the    *)
(* timeout, no timer that ExecuteQuery started is still pending once the   *)
(* call has returned: it was cancelled or it has fired.                    *)
(***************************************************************************)
C30_QueryWonTheRace ==
    /\ AdapterDone("executeQuery")
    /\ race.query \in {"rows", "error"}
    /\ race.outcome = race.query

C30_NoTimerLeftPending == C30_QueryWonTheRace => race.timer # "pending"

(***************************************************************************)
(* C28. Every invocation of a tool registered through ToolManager.addTool  *)
(* ends with a response and never with a propagated exception: when the    *)
(* handler raises, the response has isError = true and a text carrying the *)
(* message of the error; when the handler returns, its response goes out   *)
(* unchanged.                                                              *)
(***************************************************************************)
C28_ToolCalled == call.tool \in {"add_db_config", "introspect_schema", "list_databases",
                                 "safe_execute_query", "profile_table_or_column"}

C28_AlwaysAResponse ==
    C28_ToolCalled =>
        /\ ~call.response.raised
        /\ call.outcome.raised =>
              call.response.isError /\ call.response.kind = call.outcome.kind
        /\ ~call.outcome.raised => call.response = call.outcome

C28_Witness ==
    /\ C28_ToolCalled
    /\ call.outcome.raised
    /\ call.outcome.kind = "NotFound"
    /\ call.response = Returned(TRUE, "NotFound")

(***************************************************************************)
(* C21. introspect_schema, safe_execute_query and profile_table_or_column  *)
(* called with a name that is not registered return a not-found error; in  *)
(* that call the verdict of the classifier is not used and no adapter      *)
(* operation takes place: no connection is opened.                         *)
(***************************************************************************)
C21_UnregisteredName ==
    /\ call.tool \in {"introspect_schema", "safe_execute_query", "profile_table_or_column"}
    /\ getPathSegments(call.name) \notin DOMAIN dbs

C21_NotFoundBeforeAnything ==
    C21_UnregisteredName =>
        /\ call.response.isError
        /\ call.response.kind = "NotFound"
        /\ call.verdict = "none"
        /\ events = <<>>

(***************************************************************************)
(* C22. profile_table_or_column checks that the table exists, then (when a *)
(* column is given) that the column exists, before any profiling query is  *)
(* generated or executed; when the table or the column is missing it       *)
(* returns a not-found error and executes no profiling query.              *)
(***************************************************************************)
\* the last call was profile_table_or_column on a registered database
ProfileCall ==
    /\ call.tool = "profile_table_or_column"
    /\ getPathSegments(call.name) \in DOMAIN dbs

\* the config the call connected with and the tables of its database
C22_Config == WithType(dbs[getPathSegments(call.name)])
C22_TableMissing == call.table \notin DOMAIN LiveCatalog(files, C22_Config)
C22_ColumnMissing == call.column # <<>> /\ call.column # <<"c">>

C22_ProbeTexts ==
    { <<"information_schema.tables">>, <<"information_schema.columns">>,
      <<"sqlite_master">>, <<"table_info">> }

\* the server answered every existence probe of the call
C22_ProbesAnswered ==
    /\ events # <<>>
    /\ \A i \in 1..Len(events) : events[i].text \in C22_ProbeTexts => events[i].ok

C22_RanProfilingQuery ==
    \E i \in 1..Len(events) :
        events[i].op = "query" /\ events[i].text \notin C22_ProbeTexts

C22_MissingIsNotFound ==
    (ProfileCall /\ C22_ProbesAnswered /\ (C22_TableMissing \/ C22_ColumnMissing)) =>
        /\ call.response.isError
        /\ call.response.kind \in {"TableNotFound", "ColumnNotFound"}
        /\ ~C22_RanProfilingQuery

(***************************************************************************)
(* C24. For the same arguments, GenerateProfilingQueries of every engine   *)
(* returns the same set of query names (table-level: table_overview,       *)
(* sample_data, table_data_summary; column-level: basic_stats,             *)
(* numeric_stats, top_values, data_quality), never mixes the two sets, and *)
(* each named query yields the same result column names on every engine.   *)
(***************************************************************************)
C24_Generated(engineKind, arguments) ==
    LET tableName == arguments[1]
        columnName == SubSeq(arguments, 2, Len(arguments))
    IN CASE engineKind = "mysql" -> generateMySQLProfilingQueries(tableName, columnName)
         [] engineKind = "sqlite" -> generateSQLiteProfilingQueries(tableName, columnName)
         [] OTHER -> generateDuckDBProfilingQueries(tableName, columnName)

C24_Names(arguments) ==
    IF Len(arguments) = 1 THEN {"table_overview", "sample_data", "table_data_summary"}
    ELSE {"basic_stats", "numeric_stats", "top_values", "data_quality"}

C24_SameNamesAndShapes ==
    AdapterDone("generateProfilingQueries") =>
        /\ DOMAIN call.result = C24_Names(call.query)
        /\ \A engineKind \in {"mysql", "sqlite", "duckdb"} :
              LET other == C24_Generated(engineKind, call.query)
              IN /\ DOMAIN other = DOMAIN call.result
                 /\ \A queryName \in DOMAIN other :
                       other[queryName].columns = call.result[queryName].columns

(***************************************************************************)
(* C25. On every engine the table-level summary query table_data_summary   *)
(* reports as total_rows the row count of the profiled table, the same     *)
(* value table_overview reports for it, so the dataset-size hint of the    *)
(* report (below 1000 rows small, below 100000 medium, otherwise large) is *)
(* chosen from the real row count of the table.                            *)
(***************************************************************************)
\* a table-level profile both of whose counting queries were answered
C25_TableProfiled ==
    /\ ProfileCall
    /\ call.column = <<>>
    /\ ~call.response.isError
    /\ call.report.totalRows # <<>>
    /\ call.report.totalRecords # <<>>

C25_LiveRows == LiveCatalog(files, C22_Config)[call.table]

C25_SummaryCountsRows ==
    C25_TableProfiled =>
        /\ call.report.totalRows = <<C25_LiveRows>>
        /\ call.report.totalRecords = call.report.totalRows
        /\ call.report.insight = IF C25_LiveRows < 1000 THEN "small"
                                 ELSE IF C25_LiveRows < 100000 THEN "medium"
                                 ELSE "large"

(***************************************************************************)
(* C26. Whenever safe_execute_query invokes an adapter's ExecuteQuery, the *)
(* caller's query was accepted by the safety policy of the same engine     *)
(* kind as the adapter that runs it, and that engine kind is the one       *)
(* recorded for the named database at registration; no adapter of another  *)
(* engine kind is invoked.                                                 *)
(***************************************************************************)
\* a call of safe_execute_query that reached an adapter
C26_AdapterInvoked == call.tool = "safe_execute_query" /\ events # <<>>

\* the policy of an engine kind accepts the query
C26_PolicyAccepts(engineKind, q) ==
    CASE engineKind = "mysql" -> isMySQLQuerySafeOf[q] = "true"
      [] engineKind = "sqlite" -> isSQLiteQuerySafeOf[q] = "true"
      [] engineKind = "duckdb" -> isDuckDBQuerySafeOf[q] = "true"
      [] OTHER -> FALSE

C26_GatedByThePolicyOfTheEngine ==
    C26_AdapterInvoked =>
        /\ getDatabase(dbs, call.name) # <<>>
        /\ \A i \in 1..Len(events) :
              /\ events[i].engine = getDatabase(dbs, call.name)[1].engine
              /\ C26_PolicyAccepts(events[i].engine, call.query)
        /\ call.verdict = "true"

\* an adapter ran a query that the policy of another engine kind rejects
C26_Witness ==
    /\ C26_AdapterInvoked
    /\ \E i \in 1..Len(events) : events[i].op = "query" /\ events[i].ok
    /\ \E other \in {"mysql", "sqlite", "duckdb"} : ~C26_PolicyAccepts(other, call.query)

(***************************************************************************)
(* C27. The config that introspect_schema, safe_execute_query and          *)
(* profile_table_or_column rebuild from a registered record (the engine    *)
(* kind re-attached as the type tag to the stored tag-less config) equals, *)
(* field for field, the config that was passed to the add_db_config call   *)
(* that created the record.                                                *)
(***************************************************************************)
\* the config the three tools rebuild for a name, <<>> where there is no record
C27_Rebuilt(state, name) ==
    IF getDatabase(state, name) = <<>> \/ getDatabase(state, name) = <<NotADatabaseState>>
    THEN <<>>
    ELSE <<WithType(getDatabase(state, name)[1])>>

\* the call was an add_db_config of the name that wrote its record
C27_Added(name) ==
    /\ call'.tool = "add_db_config"
    /\ call'.name = name
    /\ ~call'.response.isError

C27_RebuiltIsWhatWasAdded ==
    [][\A name \in ProfileNames :
          /\ C27_Added(name) => C27_Rebuilt(dbs', name) = call'.config
          /\ (C27_Rebuilt(dbs', name) # <<>> /\ ~C27_Added(name)) =>
                C27_Rebuilt(dbs', name) = C27_Rebuilt(dbs, name)]_vars

(***************************************************************************)
(* C29. list_databases, safe_execute_query and profile_table_or_column     *)
(* leave the registry unchanged on every path (success, not found, unsafe  *)
(* query, execution failure): the set of names and the engine kind, the    *)
(* config and the cached schemas of every record are the same after the    *)
(* call as before.                                                         *)
(***************************************************************************)
C29_ReadingTools == {"list_databases", "safe_execute_query", "profile_table_or_column"}

C29_RegistryUnchanged ==
    [][call'.tool \in C29_ReadingTools =>
          /\ getDatabaseNames(dbs') = getDatabaseNames(dbs)
          /\ dbs' = dbs]_vars

\* a profile that ran its queries against a registered database
C29_Witness ==
    /\ call.tool = "profile_table_or_column"
    /\ ~call.response.isError
    /\ events # <<>>
    /\ getDatabaseNames(dbs) # {}

====
